-------------------------------- MODULE Y86 --------------------------------
(***************************************************************************)
(* The Y86-64 instruction set as the simulators of ICS/lab6 share it:      *)
(* words, registers, the ALU, the condition codes and the memories.  A     *)
(* word is one of Size values in two's complement; an address counts       *)
(* words of data, or instructions of code, where the program counts bytes. *)
(* Code and data are kept apart: a program does not write its own code.    *)
(***************************************************************************)
EXTENDS Integers, Sequences

CONSTANTS
  Regs,      \* the program registers
  RSP,       \* the stack pointer, REG_RSP
  RNONE,     \* "no register", REG_NONE
  Size,      \* number of words: 2^64 in the program
  CodeLen,   \* code addresses below CodeLen are in memory
  DataLen    \* data addresses below DataLen are in memory

ASSUME Y86Assumption ==
  /\ RSP \in Regs /\ RNONE \notin Regs
  /\ Size \in Nat \ {0} /\ Size % 2 = 0
  /\ CodeLen \in 1 .. Size - 1 /\ DataLen \in 1 .. Size - 1

Word == 0 .. Size - 1
Negative(v) == v >= Size \div 2
Minus(n) == Size - n            \* the word that stands for -n

Conds == {"yes", "le", "l", "e", "ne", "ge", "g"}

\* An instruction with every field the fetch unit may decode.
Instr == [icode : {"nop", "halt", "rrmovq", "irmovq", "rmmovq", "mrmovq", "opq",
                   "jxx", "call", "ret", "pushq", "popq", "iaddq", "bad"},
          ifun : Conds \cup {"add", "sub"},
          rA : Regs \cup {RNONE}, rB : Regs \cup {RNONE}, valC : Word]

\* The words of memory a program does not set are zero, and 0 is halt.
HALT == [icode |-> "halt", ifun |-> "yes", rA |-> RNONE, rB |-> RNONE, valC |-> 0]

InCode(a) == a < CodeLen
InData(a) == a < DataLen

get_instr(prog, a) == IF a < Len(prog) THEN prog[a + 1] ELSE HALT

get_reg_val(r, id) == IF id = RNONE THEN 0 ELSE r[id]
set_reg_val(r, id, v) == IF id = RNONE THEN r ELSE [r EXCEPT ![id] = v]

compute_alu(fn, a, b) == IF fn = "sub" THEN (b - a) % Size ELSE (a + b) % Size

\* PACK_CC(zero, sign, ovf)
compute_cc(fn, a, b) ==
  LET val == compute_alu(fn, a, b)
      alike == IF fn = "sub"
               THEN (a # 0 /\ ~ Negative(a)) = Negative(b)
               ELSE Negative(a) = Negative(b)
      was == IF fn = "sub" THEN b ELSE a
  IN  [zf |-> val = 0,
       sf |-> Negative(val),
       of |-> alike /\ Negative(val) # Negative(was)]

DEFAULT_CC == [zf |-> TRUE, sf |-> FALSE, of |-> FALSE]

cond_holds(cc, fn) ==
  LET less == cc.sf # cc.of
  IN  \/ fn = "yes"
      \/ fn = "le" /\ (less \/ cc.zf)
      \/ fn = "l"  /\ less
      \/ fn = "e"  /\ cc.zf
      \/ fn = "ne" /\ ~ cc.zf
      \/ fn = "ge" /\ ~ less
      \/ fn = "g"  /\ ~ less /\ ~ cc.zf

Exceptions == {"SADR", "SINS", "SHLT"}
=============================================================================
