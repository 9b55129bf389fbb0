-------------------------------- MODULE Isa --------------------------------
(***************************************************************************)
(* What a Y86-64 program means: the instruction-at-a-time simulator of     *)
(* ICS/lab6/misc/isa.c, against which psim -t compares the pipelined       *)
(* processor.  One action per instruction of step_state.                   *)
(***************************************************************************)
EXTENDS Y86

VARIABLES
  prog,   \* the program in memory
  pc,     \* address of the next instruction
  r,      \* the register file
  m,      \* data memory
  cc,     \* condition codes
  stat    \* "SAOK" while the machine runs, then why it stopped

vars == <<prog, pc, r, m, cc, stat>>

Instruction == get_instr(prog, pc)
A == get_reg_val(r, Instruction.rA)
B == get_reg_val(r, Instruction.rB)
Address == (B + Instruction.valC) % Size
Below == (r[RSP] - 1) % Size
Above == (r[RSP] + 1) % Size
ftpc == (pc + 1) % Size

Executes(icodes) == stat = "SAOK" /\ InCode(pc) /\ Instruction.icode \in icodes
Goes(to) == pc' = to /\ stat' = "SAOK" /\ UNCHANGED prog
Stops(s) == stat' = s /\ UNCHANGED <<prog, pc, m, cc>>

Nop == Executes({"nop"}) /\ Goes(ftpc) /\ UNCHANGED <<r, m, cc>>

\* An instruction that raises an exception and has changed nothing.
Raise ==
  \/ Executes({"halt"}) /\ Stops("SHLT") /\ UNCHANGED r
  \/ Executes({"bad"}) /\ Stops("SINS") /\ UNCHANGED r
  \/ stat = "SAOK" /\ ~ InCode(pc) /\ Stops("SADR") /\ UNCHANGED r
  \/ Executes({"rmmovq", "mrmovq"}) /\ ~ InData(Address) /\ Stops("SADR") /\ UNCHANGED r
  \/ Executes({"ret"}) /\ ~ InData(r[RSP]) /\ Stops("SADR") /\ UNCHANGED r

\* pushq, call and popq move the stack pointer before they find the address bad.
StackFault ==
  /\ \/ /\ Executes({"pushq", "call"}) /\ ~ InData(Below)
        /\ r' = set_reg_val(r, RSP, Below)
     \/ /\ Executes({"popq"}) /\ ~ InData(r[RSP])
        /\ r' = set_reg_val(r, RSP, Above)
  /\ Stops("SADR")

Move ==
  /\ \/ /\ Executes({"rrmovq"})
        /\ r' = IF cond_holds(cc, Instruction.ifun)
                THEN set_reg_val(r, Instruction.rB, A) ELSE r
     \/ /\ Executes({"irmovq"})
        /\ r' = set_reg_val(r, Instruction.rB, Instruction.valC)
  /\ Goes(ftpc) /\ UNCHANGED <<m, cc>>

Store ==
  /\ Executes({"rmmovq"}) /\ InData(Address)
  /\ m' = [m EXCEPT ![Address] = A]
  /\ Goes(ftpc) /\ UNCHANGED <<r, cc>>

Load ==
  /\ Executes({"mrmovq"}) /\ InData(Address)
  /\ r' = set_reg_val(r, Instruction.rA, m[Address])
  /\ Goes(ftpc) /\ UNCHANGED <<m, cc>>

Arithmetic ==
  /\ \/ /\ Executes({"opq"})
        /\ r' = set_reg_val(r, Instruction.rB, compute_alu(Instruction.ifun, A, B))
        /\ cc' = compute_cc(Instruction.ifun, A, B)
     \/ /\ Executes({"iaddq"})
        /\ r' = set_reg_val(r, Instruction.rB, compute_alu("add", Instruction.valC, B))
        /\ cc' = compute_cc("add", Instruction.valC, B)
  /\ Goes(ftpc) /\ UNCHANGED m

Jump ==
  /\ Executes({"jxx"})
  /\ Goes(IF cond_holds(cc, Instruction.ifun) THEN Instruction.valC ELSE ftpc)
  /\ UNCHANGED <<r, m, cc>>

Call ==
  /\ Executes({"call"}) /\ InData(Below)
  /\ r' = set_reg_val(r, RSP, Below)
  /\ m' = [m EXCEPT ![Below] = ftpc]
  /\ Goes(Instruction.valC) /\ UNCHANGED cc

Ret ==
  /\ Executes({"ret"}) /\ InData(r[RSP])
  /\ r' = set_reg_val(r, RSP, Above)
  /\ Goes(m[r[RSP]]) /\ UNCHANGED <<m, cc>>

Push ==
  /\ Executes({"pushq"}) /\ InData(Below)
  /\ r' = set_reg_val(r, RSP, Below)
  /\ m' = [m EXCEPT ![Below] = A]
  /\ Goes(ftpc) /\ UNCHANGED cc

\* The popped register is written last, so popq %rsp leaves the popped value.
Pop ==
  /\ Executes({"popq"}) /\ InData(r[RSP])
  /\ r' = set_reg_val(set_reg_val(r, RSP, Above), Instruction.rA, m[r[RSP]])
  /\ Goes(ftpc) /\ UNCHANGED <<m, cc>>

Init ==
  /\ pc = 0
  /\ r = [id \in Regs |-> 0]
  /\ cc = DEFAULT_CC
  /\ stat = "SAOK"

Next == \/ Nop \/ Raise \/ StackFault \/ Move \/ Store \/ Load
        \/ Arithmetic \/ Jump \/ Call \/ Ret \/ Push \/ Pop

Spec == Init /\ [][Next]_vars
=============================================================================
