--------------------------- MODULE MCEngineManager ---------------------------
(* Camera 1 is the gate, camera 2 counts until a PATCH makes it a gate too. *)
EXTENDS EngineManager

MCFirstRoles ==
  [c \in Registered |-> IF c = 1 THEN {"entry_exit"} ELSE {"occupancy"}]
==============================================================================
