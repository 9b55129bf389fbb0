-------------------------------- MODULE Pipe --------------------------------
(***************************************************************************)
(* The five-stage pipelined Y86-64 processor of ICS/lab6: the control      *)
(* logic of pipe/pipe-full.hcl with the stages, pipeline registers and     *)
(* state update of pipe/psim.c.  One action, a clock cycle: every signal   *)
(* is computed from the pipeline registers, then the program-visible state *)
(* and the registers are updated together.  Signals keep their HCL names.  *)
(***************************************************************************)
EXTENDS Y86, FiniteSets

CONSTANTS
  Programs,   \* the programs to be run
  InitMem     \* the data memory load_mem leaves

ASSUME PipeAssumption ==
  Programs \subseteq Seq(Instr) /\ InitMem \in [0 .. DataLen - 1 -> Word]

VARIABLES
  prog,       \* the program in memory, written only by load_mem
  F_predPC,   \* pipeline register F
  D, E, M, W, \* pipeline registers D, E, M and W
  reg,        \* the register file
  mem,        \* data memory
  cc          \* condition codes

vars == <<prog, F_predPC, D, E, M, W, reg, mem, cc>>

Bubble_D == [stat |-> "SBUB", icode |-> "nop", ifun |-> "yes", rA |-> RNONE, rB |-> RNONE,
             valC |-> 0, valP |-> 0, pc |-> 0]
Bubble_E == [stat |-> "SBUB", icode |-> "nop", ifun |-> "yes", valC |-> 0, valA |-> 0,
             valB |-> 0, dstE |-> RNONE, dstM |-> RNONE, pc |-> 0]
Bubble_M == [stat |-> "SBUB", icode |-> "nop", Cnd |-> FALSE, valE |-> 0, valA |-> 0,
             dstE |-> RNONE, dstM |-> RNONE, pc |-> 0]
Bubble_W == [stat |-> "SBUB", icode |-> "nop", valE |-> 0, valM |-> 0,
             dstE |-> RNONE, dstM |-> RNONE, pc |-> 0]

---------------------------------------------------------------------------
(* Fetch *)

f_pc == IF M.icode = "jxx" /\ ~ M.Cnd THEN M.valA
        ELSE IF W.icode = "ret" THEN W.valM
        ELSE F_predPC

imem_error == ~ InCode(f_pc)

\* An address outside memory is fetched as a nop.
fetched == IF imem_error THEN [HALT EXCEPT !.icode = "nop"] ELSE get_instr(prog, f_pc)

f_stat == IF imem_error THEN "SADR"
          ELSE IF fetched.icode = "bad" THEN "SINS"
          ELSE IF fetched.icode = "halt" THEN "SHLT" ELSE "SAOK"

f_valP == (f_pc + 1) % Size

f_predPC == IF fetched.icode \in {"jxx", "call"} THEN fetched.valC ELSE f_valP

if_id_next == [stat |-> f_stat, icode |-> fetched.icode, ifun |-> fetched.ifun,
               rA |-> fetched.rA, rB |-> fetched.rB, valC |-> fetched.valC,
               valP |-> f_valP, pc |-> f_pc]

---------------------------------------------------------------------------
(* Memory *)

mem_addr == IF M.icode \in {"popq", "ret"} THEN M.valA ELSE M.valE
mem_read == M.icode \in {"mrmovq", "popq", "ret"}
mem_write == M.icode \in {"rmmovq", "pushq", "call"}
dmem_error == (mem_read \/ mem_write) /\ ~ InData(mem_addr)
m_valM == IF mem_read /\ ~ dmem_error THEN mem[mem_addr] ELSE 0
m_stat == IF dmem_error THEN "SADR" ELSE M.stat

mem_wb_next == [stat |-> m_stat, icode |-> M.icode, valE |-> M.valE, valM |-> m_valM,
                dstE |-> M.dstE, dstM |-> M.dstM, pc |-> M.pc]

---------------------------------------------------------------------------
(* Execute *)

aluA == CASE E.icode \in {"rrmovq", "opq"} -> E.valA
          [] E.icode \in {"irmovq", "rmmovq", "mrmovq", "iaddq"} -> E.valC
          [] E.icode \in {"call", "pushq"} -> Minus(1)
          [] E.icode \in {"ret", "popq"} -> 1
          [] OTHER -> 0

aluB == IF E.icode \in {"rmmovq", "mrmovq", "opq", "call", "pushq", "ret", "popq", "iaddq"}
        THEN E.valB ELSE 0

alufun == IF E.icode = "opq" THEN E.ifun ELSE "add"

set_cc == E.icode \in {"opq", "iaddq"} /\ m_stat \notin Exceptions /\ W.stat \notin Exceptions

e_valE == compute_alu(alufun, aluA, aluB)
e_Cnd == cond_holds(cc, E.ifun)
e_dstE == IF E.icode = "rrmovq" /\ ~ e_Cnd THEN RNONE ELSE E.dstE

ex_mem_next == [stat |-> E.stat, icode |-> E.icode, Cnd |-> e_Cnd, valE |-> e_valE,
                valA |-> E.valA, dstE |-> e_dstE, dstM |-> E.dstM, pc |-> E.pc]

---------------------------------------------------------------------------
(* Decode, with the values forwarded from the later stages *)

d_srcA == IF D.icode \in {"rrmovq", "rmmovq", "opq", "pushq"} THEN D.rA
          ELSE IF D.icode \in {"popq", "ret"} THEN RSP ELSE RNONE

d_srcB == IF D.icode \in {"opq", "rmmovq", "mrmovq", "iaddq"} THEN D.rB
          ELSE IF D.icode \in {"pushq", "popq", "call", "ret"} THEN RSP ELSE RNONE

d_dstE == IF D.icode \in {"rrmovq", "irmovq", "opq", "iaddq"} THEN D.rB
          ELSE IF D.icode \in {"pushq", "popq", "call", "ret"} THEN RSP ELSE RNONE

d_dstM == IF D.icode \in {"mrmovq", "popq"} THEN D.rA ELSE RNONE

\* Faulty variant: of one instruction, dstE is taken before dstM.
forwardOldValue(src) == IF src = e_dstE THEN e_valE
                        ELSE IF src = M.dstE THEN M.valE
                        ELSE IF src = M.dstM THEN m_valM
                        ELSE IF src = W.dstM THEN W.valM
                        ELSE IF src = W.dstE THEN W.valE
                        ELSE get_reg_val(reg, src)

\* The youngest instruction ahead wins; of one instruction, dstM before dstE.
forward(src) == IF src = e_dstE THEN e_valE
                ELSE IF src = M.dstM THEN m_valM
                ELSE IF src = M.dstE THEN M.valE
                ELSE IF src = W.dstM THEN W.valM
                ELSE IF src = W.dstE THEN W.valE
                ELSE get_reg_val(reg, src)

d_valA == IF D.icode \in {"call", "jxx"} THEN D.valP ELSE forward(d_srcA)
d_valB == forward(d_srcB)

id_ex_next == [stat |-> D.stat, icode |-> D.icode, ifun |-> D.ifun, valC |-> D.valC,
               valA |-> d_valA, valB |-> d_valB, dstE |-> d_dstE, dstM |-> d_dstM,
               pc |-> D.pc]

---------------------------------------------------------------------------
(* Pipeline control *)

\* Faulty variant: any register the instruction ahead loads makes the next one wait, "no register" too.
load_useAny == E.dstM \in {d_srcA, d_srcB}

load_use == E.icode \in {"mrmovq", "popq"} /\ E.dstM \in {d_srcA, d_srcB}
returning == "ret" \in {D.icode, E.icode, M.icode}
mispredicted == E.icode = "jxx" /\ ~ e_Cnd

\* Faulty variant: a ret bubbles D even when a load makes it stall.
D_bubbleOnReturn == mispredicted \/ returning

F_stall == load_use \/ returning
D_stall == load_use
D_bubble == mispredicted \/ (~ load_use /\ returning)
E_bubble == mispredicted \/ load_use
M_bubble == m_stat \in Exceptions \/ W.stat \in Exceptions
W_stall == W.stat \in Exceptions

---------------------------------------------------------------------------
Init ==
  /\ prog \in Programs
  /\ F_predPC = 0
  /\ D = Bubble_D /\ E = Bubble_E /\ M = Bubble_M /\ W = Bubble_W
  /\ reg = [id \in Regs |-> 0]
  /\ mem = InitMem
  /\ cc = DEFAULT_CC

\* sim_run_pipe stops when the status of the instruction in W is an exception.
Stat == IF W.stat = "SBUB" THEN "SAOK" ELSE W.stat

\* update_state: dstM is written after dstE, which decides popq %rsp.
writeback(f, dstE, valE, dstM, valM) == set_reg_val(set_reg_val(f, dstE, valE), dstM, valM)

mem_update == IF mem_write /\ ~ dmem_error THEN [mem EXCEPT ![mem_addr] = M.valA] ELSE mem

\* A register that is told to stall and to take a bubble is in error: it takes
\* the bubble, and its status becomes STAT_PIP.
update_pipe(curr, next, stall, bubble, empty) ==
  IF stall /\ bubble THEN [empty EXCEPT !.stat = "SPIP"]
  ELSE IF stall THEN curr
  ELSE IF bubble THEN empty ELSE next

Cycle ==
  /\ Stat = "SAOK"
  /\ reg' = writeback(reg, W.dstE, W.valE, W.dstM, W.valM)
  /\ mem' = mem_update
  /\ cc' = IF set_cc THEN compute_cc(alufun, aluA, aluB) ELSE cc
  /\ F_predPC' = IF F_stall THEN F_predPC ELSE f_predPC
  /\ D' = update_pipe(D, if_id_next, D_stall, D_bubble, Bubble_D)
  /\ E' = update_pipe(E, id_ex_next, FALSE, E_bubble, Bubble_E)
  /\ M' = update_pipe(M, ex_mem_next, FALSE, M_bubble, Bubble_M)
  /\ W' = update_pipe(W, mem_wb_next, W_stall, FALSE, Bubble_W)
  /\ UNCHANGED prog

Next == Cycle

Spec == Init /\ [][Next]_vars /\ WF_vars(Next)

---------------------------------------------------------------------------
(* Properties *)

\* No status is SPIP: stall and bubble never meet ("At most one of these can be true").
TypeOK ==
  /\ prog \in Programs /\ F_predPC \in Word
  /\ {D.stat, E.stat, M.stat, W.stat} \subseteq {"SBUB", "SAOK"} \cup Exceptions
  /\ {D.rA, D.rB, E.dstE, E.dstM, M.dstE, M.dstM, W.dstE, W.dstM} \subseteq Regs \cup {RNONE}
  /\ {D.valC, D.valP, E.valC, E.valA, E.valB, M.valE, M.valA, W.valE, W.valM} \subseteq Word
  /\ reg \in [Regs -> Word] /\ mem \in [0 .. DataLen - 1 -> Word]
  /\ cc \in [zf : BOOLEAN, sf : BOOLEAN, of : BOOLEAN]

(* The program as the instructions in M and W, and those before them, leave   *)
(* it: an instruction takes effect when it enters M, where its exceptions are *)
(* known.  isa.c moves the stack pointer of a push, call or pop that faults,  *)
(* the pipeline does not: the mapping adds that move.                         *)
moved(f, stat, icode, valE) ==
  IF stat = "SADR" /\ icode \in {"pushq", "call", "popq"} THEN set_reg_val(f, RSP, valE) ELSE f

IsaReg ==
  LET before == writeback(reg, W.dstE, W.valE, W.dstM, W.valM)
  IN  IF W.stat \in Exceptions THEN moved(reg, W.stat, W.icode, W.valE)
      ELSE IF m_stat \in Exceptions THEN moved(before, m_stat, M.icode, M.valE)
      ELSE writeback(before, M.dstE, M.valE, M.dstM, m_valM)

IsaPc ==
  IF W.stat \in Exceptions THEN W.pc
  ELSE IF m_stat \in Exceptions THEN M.pc
  ELSE IF E.stat # "SBUB" THEN E.pc
  ELSE IF D.stat # "SBUB" THEN D.pc
  ELSE IF M.icode = "ret" THEN m_valM ELSE f_pc

IsaStat ==
  IF W.stat \in Exceptions THEN W.stat
  ELSE IF m_stat \in Exceptions THEN m_stat ELSE "SAOK"

I == INSTANCE Isa WITH pc <- IsaPc, r <- IsaReg, m <- mem_update, stat <- IsaStat

\* The pipeline runs every program as the instruction set defines it ("ISA Check
\* Succeeds"): forwarding, stalls and squashed branches lose and repeat nothing, and
\* nothing after an instruction that raises an exception changes memory, registers or cc.
ImplementsIsa == I!Spec

\* The pipeline never stalls for good: until it stops, instructions keep retiring.
Progress == []<>(Stat # "SAOK" \/ W.stat # "SBUB")
=============================================================================
