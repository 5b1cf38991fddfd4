----------------------------- MODULE MCConExec ------------------------------
(***************************************************************************)
(* The encodings that the rewriting knows, the ones it turns down and the  *)
(* ones it gets wrong, each with displacements of every length, and        *)
(* instructions that are not relative to rip.                              *)
(***************************************************************************)
EXTENDS ConExec

Disps == {<<0, 0, 0, 0>>, <<16, 0, 0, 0>>, <<128, 0, 0, 0>>, <<16, 1, 0, 0>>,
          <<0, 0, 1, 0>>, <<1, 2, 3, 0>>, <<240, 255, 255, 255>>}

Imm4 == <<254, 255, 255, 255>>

(* Bytes before and after the displacement                                 *)
Plain ==
    {<<<<72, o, 13>>, <<>>>> : o \in {139, 137, 59, 57, 141, 3, 1, 43, 41, 11}} \cup  \* REX.W
    {<<<<o, 5>>, <<>>>> : o \in {139, 138, 136, 59, 1, 41, 133, 142}} \cup
    {<<<<102, 139, 5>>, <<>>>>, <<<<100, 139, 5>>, <<>>>>, <<<<240, 1, 5>>, <<>>>>,   \* prefixes
     <<<<46, 59, 5>>, <<>>>>, <<<<240, 72, 1, 5>>, <<>>>>,
     <<<<138, 37>>, <<>>>>, <<<<64, 138, 37>>, <<>>>>,                                \* ah, spl
     <<<<76, 139, 61>>, <<>>>>}                                                       \* r15

Gs ==
    {<<<<101, 139, 5>>, <<>>>>, <<<<101, 137, 5>>, <<>>>>, <<<<101, 72, 3, 5>>, <<>>>>,
     <<<<101, 59, 5>>, <<>>>>, <<<<101, 102, 139, 5>>, <<>>>>, <<<<102, 101, 139, 5>>, <<>>>>,
     <<<<101, 138, 37>>, <<>>>>, <<<<101, 102, 72, 139, 5>>, <<>>>>,
     <<<<101, 129, 37>>, Imm4>>, <<<<101, 72, 129, 37>>, Imm4>>, <<<<101, 131, 37>>, <<1>>>>,
     <<<<240, 101, 102, 129, 37>>, <<1, 0>>>>}

Immediate ==
    {<<<<131, 61>>, <<1>>>>, <<<<128, 61>>, <<1>>>>, <<<<198, 5>>, <<1>>>>,
     <<<<101, 131, 5>>, <<1>>>>, <<<<101, 128, 5>>, <<1>>>>, <<<<101, 198, 5>>, <<1>>>>,
     <<<<72, 131, 61>>, <<1>>>>, <<<<129, 61>>, Imm4>>, <<<<101, 199, 5>>, Imm4>>,
     <<<<246, 5>>, <<1>>>>, <<<<246, 5>>, <<0>>>>, <<<<72, 133, 5>>, <<>>>>,          \* test
     <<<<64, 246, 5>>, <<1>>>>, <<<<247, 5>>, Imm4>>,
     <<<<240, 15, 193, 5>>, <<>>>>, <<<<72, 15, 193, 5>>, <<>>>>, <<<<240, 15, 192, 37>>, <<>>>>}

Others ==
    {<<72, 137, 195>>, <<139, 3>>, <<77, 139, 127, 16>>, <<101, 129, 163, 0, 1, 0, 0>> \o Imm4,
     <<240, 72, 15, 193, 131, 1, 0, 0, 0>>, <<136, 99, 1>>}

MCInsns == {f[1] \o d \o f[2] : f \in Plain \cup Gs \cup Immediate, d \in Disps} \cup Others
=============================================================================
