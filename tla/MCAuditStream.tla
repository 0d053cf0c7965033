--------------------------- MODULE MCAuditStream ---------------------------
(* Three requests of one or two lines, all apart.                          *)
EXTENDS AuditStream

CONSTANTS b1, b2, b3, x, y, z, w

MCLines == [b \in Batch |-> IF b = b1 THEN {x, w} ELSE IF b = b2 THEN {y} ELSE {z}]
MCKeyOf == [b \in Batch |-> IF b = b1 THEN "k" ELSE NoKey]
=============================================================================
