----------------------------- MODULE MCActorPipe -----------------------------
(* ActorPipe has nothing to instantiate but numbers: the high-water mark lets *)
(* a careless caller fill the pipe and a handler fill its side, while a      *)
(* careful caller finds room for the exit signal next to every event.         *)
EXTENDS ActorPipe
=============================================================================
