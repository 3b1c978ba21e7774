----------------------------- MODULE MCGamePlay -----------------------------
(* Two processes and one world of two rooms in a listed zone, with an exit to *)
(* a zone that is loaded when somebody looks through it.                      *)
EXTENDS GamePlay, TLC
CONSTANTS p1, p2, near, far, hall, yard, pier, torch, ann, bob, realm1, realm2

ProcSymmetry == Permutations({p1, p2})

McCharacters == 1..3
\* Two characters, and one who takes the name of the second when it is free.
McName  == <<ann, bob, bob>>
McHome  == <<realm1, realm1, realm1>>
McBegun == {1, 2}
\* Two characters of one name, each in a world of its own.
TwinName  == <<ann, ann>>
TwinHome  == <<realm1, realm2>>
TwinWorld == [z \in {near, far} |-> IF z = near THEN realm1 ELSE realm2]
McZoneWorld == [z \in {near, far} |-> realm1]
McZoneRooms == [z \in {near, far} |-> IF z = near THEN {hall, yard} ELSE {pier, hall}]
McZoneSpawn == [z \in {near, far} |-> IF z = near THEN hall ELSE pier]
McExits == [x \in {near, far} \X {hall, yard, pier} |->
  CASE x = <<near, hall>> -> {<<None, yard>>}
    [] x = <<near, yard>> -> {<<None, hall>>, <<far, pier>>}
    [] x = <<far, pier>>  -> {<<near, yard>>}
    [] OTHER -> {}]
McFloor == [x \in {near, far} \X {hall, yard, pier} |-> IF x[2] = hall THEN {torch} ELSE {}]
McListed == <<near>>
TwinListed == <<near, far>>
McDefaultSpawn == [w \in {McHome[c] : c \in McBegun} |-> hall]
TwinDefaultSpawn == [w \in {realm1, realm2} |-> hall]
=============================================================================
