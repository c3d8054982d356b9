------------------------------- MODULE MCComposer ------------------------------
(* An author, a colleague who can be mentioned, and texts that mention nobody *)
(* or both.  Files and comments are interchangeable ids.                     *)
EXTENDS Composer, TLC

CONSTANTS ann, bob

MCUsers == {ann, bob}
MCWriters == {ann}
MCBodies == {{}, {ann, bob}}

Symmetry == Permutations(Files) \cup Permutations(Comments)
=============================================================================
