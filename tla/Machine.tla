------------------------------ MODULE Machine -------------------------------
(***************************************************************************)
(* What KRover promises: one path through the program, run natively.       *)
(* cpu gives the machine's state for each world, that is for each value of *)
(* the symbolic objects, that takes the path.  All of them execute the     *)
(* same instruction; worlds may leave the path, none may join it.          *)
(***************************************************************************)
EXTENDS X86

CONSTANTS Insns     \* the instructions of the program

VARIABLES
    cpu,        \* world -> machine state, for the worlds on the path
    insn        \* the instruction executed last

(* mul and idiv leave the zero flag undefined.                             *)
Undefines(op) == op \in {"mul", "idiv"}

Init == insn = [op |-> "none"] /\ \A w \in DOMAIN cpu : cpu[w].rsp = MemSize

Next ==
    /\ insn' \in Insns
    /\ DOMAIN cpu' # {} /\ DOMAIN cpu' \subseteq DOMAIN cpu
    /\ \A w \in DOMAIN cpu' : Runs(cpu[w], insn')
    /\ \A w \in DOMAIN cpu' :
        \E z \in BOOLEAN :
            LET t == Exec(cpu[w], insn')
            IN  cpu'[w] = IF Undefines(insn'.op) THEN [t EXCEPT !.zf = z] ELSE t

Spec == Init /\ [][Next]_<<cpu, insn>>
=============================================================================
