-------------------------- MODULE MCHttpConnection --------------------------
(* Answers for TLC: headers that fill the first block or not, bodies that end  *)
(* in it or after it, empty or of unknown length, kept alive or closed.        *)
EXTENDS HttpConnection

CONSTANTS Heads, Bodies, Rest

MCAnswers ==
  [head : Heads, typeAt : {1}, body : Bodies \cup {Unknown}, sent : Rest,
   close : BOOLEAN, redirect : BOOLEAN]

AnyWorld == [faulty : BOOLEAN, memoryShort : BOOLEAN, interrupts : BOOLEAN, cuts : BOOLEAN]
=============================================================================
