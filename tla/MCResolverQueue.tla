--------------------------- MODULE MCResolverQueue ---------------------------
(* A small instance of ResolverQueue: an address book and a web resolver,  *)
(* a number both know and one that only the web knows.                     *)
EXTENDS ResolverQueue, TLC

CONSTANTS book, web, friend, stranger

MCKnows == book :> {friend} @@ web :> {friend, stranger}
MCInitial == <<book, web>>
==============================================================================
