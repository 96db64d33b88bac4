-------------------------- MODULE MCCodebaseIndex --------------------------
(* CodebaseIndex on two source files and a picture.                         *)
EXTENDS CodebaseIndex
MCTermsOf == [old |-> {"x"}, new |-> {"x", "y"}, binary |-> {"y"}]
MCSymbolsOf == [old |-> {}, new |-> {"x"}, binary |-> {}]
=============================================================================
