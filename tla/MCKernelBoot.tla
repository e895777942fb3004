---------------------------- MODULE MCKernelBoot ----------------------------
(* Two nodes whose programs need the screen of node 0; the entity that one of *)
(* them makes needs no resource, but asks for the Io.  The program of node 1  *)
(* sends itself a message, as examples/helloworld.plm does.                   *)
EXTENDS KernelBoot

MainsOf == [p \in Programs |->
  IF p = 0 THEN <<"init", "print", "print">> ELSE <<"new", "zig">>]
InocapsOf == [p \in Programs \cup {Child} |->
  IF p = 0 THEN <<"Io", "Amoeba">> ELSE <<"Io">>]
PreambleOf == [p \in Programs \cup {Child} |->
  IF p = Child THEN {} ELSE {"screen"}]
ResourcesOf == [n \in Nodes |-> IF n = 0 THEN {"screen"} ELSE {"disk"}]
=============================================================================
