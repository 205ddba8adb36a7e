---------------------------- MODULE MCRpcSession ----------------------------
(* Instances of RpcSession for TLC: request ids that are each call's own,  *)
(* as SshPool draws them, or one id that several calls share.              *)
EXTENDS RpcSession, TLC

CONSTANTS c1, c2, shared, effect, chunk

OwnId == [c \in Call |-> c]
SharedId == [c \in Call |-> shared]
Effects == [c \in Call |-> effect]
EffectAndChunk == [c \in Call |-> IF c = c2 THEN chunk ELSE effect]

Symmetry == Permutations(Call)
=============================================================================
