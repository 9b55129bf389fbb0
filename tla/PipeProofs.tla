----------------------------- MODULE PipeProofs -----------------------------
(***************************************************************************)
(* Machine-checked proofs about Pipe, for every program, every word size   *)
(* and every size of memory.                                               *)
(***************************************************************************)
EXTENDS Pipe, TLAPS

\* What is fetched from address a, and what the fetch stage predicts comes after it.
InstrAt(a) == IF InCode(a) THEN get_instr(prog, a) ELSE [HALT EXCEPT !.icode = "nop"]
StatAt(a) == IF ~ InCode(a) THEN "SADR"
             ELSE IF InstrAt(a).icode = "bad" THEN "SINS"
             ELSE IF InstrAt(a).icode = "halt" THEN "SHLT" ELSE "SAOK"
NextOf(a) == (a + 1) % Size
PredictedAt(a) ==
  IF InstrAt(a).icode \in {"jxx", "call"} THEN InstrAt(a).valC ELSE NextOf(a)

\* The registers an instruction reads and writes (pipe-full.hcl), by instruction.
SrcA(i) == IF i.icode \in {"rrmovq", "rmmovq", "opq", "pushq"} THEN i.rA
           ELSE IF i.icode \in {"popq", "ret"} THEN RSP ELSE RNONE
SrcB(i) == IF i.icode \in {"opq", "rmmovq", "mrmovq", "iaddq"} THEN i.rB
           ELSE IF i.icode \in {"pushq", "popq", "call", "ret"} THEN RSP ELSE RNONE
DstE(i) == IF i.icode \in {"rrmovq", "irmovq", "opq", "iaddq"} THEN i.rB
           ELSE IF i.icode \in {"pushq", "popq", "call", "ret"} THEN RSP ELSE RNONE
DstM(i) == IF i.icode \in {"mrmovq", "popq"} THEN i.rA ELSE RNONE

\* Nothing in M or W has raised an exception: what D and E hold will be executed.
Running == m_stat \notin Exceptions /\ W.stat \notin Exceptions
Squashing == M.icode = "jxx" /\ ~ M.Cnd

\* A bubble does nothing.
BubblesAreEmpty ==
  /\ D.stat = "SBUB" => D.icode = "nop"
  /\ E.stat = "SBUB" => E.icode = "nop" /\ E.dstE = RNONE /\ E.dstM = RNONE
  /\ M.stat = "SBUB" => M.icode = "nop" /\ M.dstE = RNONE /\ M.dstM = RNONE

PcsAreWords == D.pc \in Word /\ E.pc \in Word

\* D and E hold the instructions of the addresses they carry.
DIsFetched ==
  D.stat # "SBUB" =>
    LET i == InstrAt(D.pc)
    IN  /\ D.stat = StatAt(D.pc) /\ D.icode = i.icode /\ D.ifun = i.ifun
        /\ D.rA = i.rA /\ D.rB = i.rB /\ D.valC = i.valC /\ D.valP = NextOf(D.pc)

EIsDecoded ==
  E.stat # "SBUB" =>
    LET i == InstrAt(E.pc)
    IN  /\ E.stat = StatAt(E.pc) /\ E.icode = i.icode /\ E.ifun = i.ifun /\ E.valC = i.valC
        /\ E.dstE = DstE(i) /\ E.dstM = DstM(i)

\* ... and the instruction in E the operands that the program means it to read.
OperandsAreCurrent ==
  Running /\ E.stat # "SBUB" =>
    LET i == InstrAt(E.pc)
    IN  /\ i.icode \in {"call", "jxx"} => E.valA = NextOf(E.pc)
        /\ i.icode \notin {"call", "jxx"} /\ SrcA(i) # RNONE => E.valA = IsaReg[SrcA(i)]
        /\ SrcB(i) # RNONE => E.valB = IsaReg[SrcB(i)]

\* After an instruction comes the one that was predicted, except after a ret: nothing is
\* fetched until it has read its return address, or after a branch that was not taken.
PathIsFollowed ==
  Running =>
    /\ E.stat # "SBUB" => /\ M.icode # "ret" /\ W.icode # "ret" /\ ~ Squashing
                          /\ E.icode = "ret" => D.stat = "SBUB"
                          /\ E.icode # "ret" => D.stat # "SBUB" /\ D.pc = PredictedAt(E.pc)
    /\ D.stat # "SBUB" => /\ M.icode # "ret" /\ W.icode # "ret" /\ ~ Squashing
                          /\ D.icode # "ret" => f_pc = PredictedAt(D.pc)
    /\ W.icode = "ret" => M.stat = "SBUB"

PipeInv ==
  /\ TypeOK /\ PcsAreWords /\ BubblesAreEmpty /\ DIsFetched /\ EIsDecoded
  /\ OperandsAreCurrent /\ PathIsFollowed

-----------------------------------------------------------------------------
(* The types of the signals.                                               *)

RegIds == Regs \cup {RNONE}
Stats == {"SBUB", "SAOK"} \cup Exceptions

LEMMA ModSize == ASSUME NEW n \in Int PROVE n % Size \in Word
BY Y86Assumption DEF Word

LEMMA AluType == ASSUME NEW fn, NEW a \in Word, NEW b \in Word PROVE compute_alu(fn, a, b) \in Word
<1>1. a + b \in Int /\ b - a \in Int
  BY Y86Assumption DEF Word
<1> QED
  BY <1>1, ModSize DEF compute_alu

LEMMA CcType ==
  ASSUME NEW fn, NEW a, NEW b
  PROVE  compute_cc(fn, a, b) \in [zf : BOOLEAN, sf : BOOLEAN, of : BOOLEAN]
<1> DEFINE val == compute_alu(fn, a, b)
           alike == IF fn = "sub" THEN (a # 0 /\ ~ Negative(a)) = Negative(b)
                    ELSE Negative(a) = Negative(b)
           was == IF fn = "sub" THEN b ELSE a
           z == val = 0
           s == Negative(val)
           o == alike /\ Negative(val) # Negative(was)
<1>1. z \in BOOLEAN /\ s \in BOOLEAN /\ o \in BOOLEAN
  BY DEF Negative
<1>2. compute_cc(fn, a, b) = [zf |-> z, sf |-> s, of |-> o]
  BY DEF compute_cc
<1> HIDE DEF z, s, o
<1> QED
  BY <1>1, <1>2

\* Zero and the word for -1 are words; so is what a register or a decoded field holds.
LEMMA SmallWords == 0 \in Word /\ 1 \in Word /\ Minus(1) \in Word
BY Y86Assumption DEF Word, Minus

LEMMA RegVal ==
  ASSUME NEW f \in [Regs -> Word], NEW id \in RegIds
  PROVE  get_reg_val(f, id) \in Word
BY SmallWords DEF get_reg_val, RegIds

LEMMA SetReg ==
  ASSUME NEW f \in [Regs -> Word], NEW id \in RegIds, NEW v \in Word
  PROVE  set_reg_val(f, id, v) \in [Regs -> Word]
BY DEF set_reg_val, RegIds

LEMMA WritebackType ==
  ASSUME NEW f \in [Regs -> Word], NEW e \in RegIds, NEW v \in Word, NEW n \in RegIds, NEW w \in Word
  PROVE  writeback(f, e, v, n, w) \in [Regs -> Word]
BY SetReg DEF writeback

LEMMA FetchTypes ==
  ASSUME TypeOK
  PROVE  /\ f_pc \in Word /\ fetched \in Instr /\ f_valP \in Word /\ f_predPC \in Word
         /\ f_stat \in Stats \ {"SBUB"}
         /\ fetched = InstrAt(f_pc) /\ f_stat = StatAt(f_pc) /\ f_valP = NextOf(f_pc)
         /\ f_predPC = PredictedAt(f_pc)
<1>1. f_pc \in Word
  BY DEF f_pc, TypeOK
<1>2. HALT \in Instr /\ [HALT EXCEPT !.icode = "nop"] \in Instr
  BY SmallWords DEF HALT, Instr, Conds
<1>3. prog \in Seq(Instr)
  BY PipeAssumption DEF TypeOK
<1>4. fetched \in Instr
  <2> HIDE DEF HALT
  <2> DEFINE nop == [HALT EXCEPT !.icode = "nop"]
  <2>1. f_pc < Len(prog) => prog[f_pc + 1] \in Instr
    BY <1>1, <1>3 DEF Word
  <2>2. get_instr(prog, f_pc) \in Instr
    BY <1>2, <2>1 DEF get_instr
  <2>3. nop \in Instr /\ fetched \in {nop, get_instr(prog, f_pc)}
    BY <1>2 DEF fetched
  <2> HIDE DEF nop
  <2> QED
    BY <2>2, <2>3
<1>5. f_valP \in Word /\ fetched.valC \in Word
  BY <1>1, <1>4, ModSize DEF f_valP, Instr, Word
<1>6. f_predPC \in Word
  BY <1>5 DEF f_predPC
<1>7. f_stat \in Stats \ {"SBUB"}
  BY DEF f_stat, Stats, Exceptions
<1>8. fetched = InstrAt(f_pc)
  BY DEF fetched, imem_error, InstrAt
<1>9. f_stat = StatAt(f_pc) /\ f_valP = NextOf(f_pc) /\ f_predPC = PredictedAt(f_pc)
  BY <1>8 DEF f_stat, StatAt, imem_error, f_valP, NextOf, f_predPC, PredictedAt
<1> QED
  BY <1>1, <1>4, <1>5, <1>6, <1>7, <1>8, <1>9

LEMMA MemoryTypes ==
  ASSUME TypeOK
  PROVE  m_valM \in Word /\ m_stat \in Stats /\ mem_update \in [0 .. DataLen - 1 -> Word]
<1>1. mem_addr \in Word
  BY DEF mem_addr, TypeOK
<1>2. m_valM \in Word
  <2>1. ~ dmem_error /\ mem_read => mem_addr \in 0 .. DataLen - 1
    BY <1>1, Y86Assumption DEF dmem_error, InData, Word
  <2> QED
    BY <2>1, SmallWords DEF m_valM, TypeOK
<1>3. m_stat \in Stats
  BY DEF m_stat, TypeOK, Stats, Exceptions
<1>4. mem_update \in [0 .. DataLen - 1 -> Word]
  BY <1>1, Y86Assumption DEF mem_update, TypeOK
<1> QED
  BY <1>2, <1>3, <1>4

LEMMA ExecuteTypes ==
  ASSUME TypeOK
  PROVE  /\ aluA \in Word /\ aluB \in Word /\ e_valE \in Word
         /\ e_dstE \in RegIds
<1>1. aluA \in Word /\ aluB \in Word
  BY SmallWords DEF aluA, aluB, TypeOK
<1>2. e_dstE \in RegIds
  BY DEF e_dstE, TypeOK, RegIds
<1> QED
  BY <1>1, <1>2, AluType DEF e_valE

LEMMA DecodeTypes ==
  ASSUME TypeOK
  PROVE  /\ d_srcA \in RegIds /\ d_srcB \in RegIds /\ d_dstE \in RegIds /\ d_dstM \in RegIds
         /\ d_valA \in Word /\ d_valB \in Word
<1>1. d_srcA \in RegIds /\ d_srcB \in RegIds /\ d_dstE \in RegIds /\ d_dstM \in RegIds
  BY Y86Assumption DEF d_srcA, d_srcB, d_dstE, d_dstM, TypeOK, RegIds
<1>2. ASSUME NEW src \in RegIds PROVE forward(src) \in Word
  BY ExecuteTypes, MemoryTypes, RegVal DEF forward, TypeOK
<1> QED
  BY <1>1, <1>2 DEF d_valA, d_valB, TypeOK

-----------------------------------------------------------------------------
(* A cycle, register by register.                                          *)

\* A machine that takes a cycle has stopped nowhere: no register is told to stall and to
\* take a bubble at once.
LEMMA CycleEffect ==
  ASSUME TypeOK, Cycle
  PROVE  /\ W.stat \in {"SBUB", "SAOK"}
         /\ D' = IF D_stall THEN D ELSE IF D_bubble THEN Bubble_D ELSE if_id_next
         /\ E' = IF E_bubble THEN Bubble_E ELSE id_ex_next
         /\ M' = IF M_bubble THEN Bubble_M ELSE ex_mem_next
         /\ W' = mem_wb_next
<1>1. W.stat \in {"SBUB", "SAOK"}
  BY DEF Cycle, Stat, TypeOK, Exceptions
<1>2. ~ W_stall /\ ~ (D_stall /\ D_bubble)
  BY <1>1 DEF W_stall, Exceptions, D_stall, D_bubble, load_use, mispredicted
<1> QED
  BY <1>1, <1>2 DEF Cycle, update_pipe

LEMMA BubbleTypes ==
  /\ Bubble_D.stat = "SBUB" /\ Bubble_D.icode = "nop" /\ Bubble_D.rA \in RegIds
     /\ Bubble_D.rB \in RegIds /\ Bubble_D.valC \in Word /\ Bubble_D.valP \in Word
  /\ Bubble_E.stat = "SBUB" /\ Bubble_E.icode = "nop" /\ Bubble_E.dstE = RNONE
     /\ Bubble_E.dstM = RNONE /\ Bubble_E.valC \in Word /\ Bubble_E.valA \in Word
     /\ Bubble_E.valB \in Word
  /\ Bubble_M.stat = "SBUB" /\ Bubble_M.icode = "nop" /\ Bubble_M.dstE = RNONE
     /\ Bubble_M.dstM = RNONE /\ Bubble_M.valE \in Word /\ Bubble_M.valA \in Word
BY SmallWords DEF Bubble_D, Bubble_E, Bubble_M, RegIds

LEMMA InitTypes == Init => TypeOK
<1> SUFFICES ASSUME Init PROVE TypeOK
  OBVIOUS
<1>1. cc \in [zf : BOOLEAN, sf : BOOLEAN, of : BOOLEAN]
  BY DEF Init, DEFAULT_CC
<1>2. reg \in [Regs -> Word] /\ mem \in [0 .. DataLen - 1 -> Word] /\ F_predPC \in Word
  BY SmallWords, PipeAssumption DEF Init
<1> QED
  BY <1>1, <1>2, SmallWords DEF Init, TypeOK, Bubble_D, Bubble_E, Bubble_M, Bubble_W

LEMMA TypesPreserved ==
  ASSUME TypeOK, Cycle
  PROVE  TypeOK'
<1>1. /\ F_predPC' \in Word /\ prog' \in Programs
  BY FetchTypes DEF Cycle, TypeOK
<1>2. /\ D'.stat \in Stats /\ D'.rA \in RegIds /\ D'.rB \in RegIds
      /\ D'.valC \in Word /\ D'.valP \in Word
  <2>1. /\ if_id_next.stat \in Stats /\ if_id_next.rA \in RegIds /\ if_id_next.rB \in RegIds
        /\ if_id_next.valC \in Word /\ if_id_next.valP \in Word
    BY FetchTypes DEF if_id_next, Instr, RegIds
  <2>2. /\ D.stat \in Stats /\ D.rA \in RegIds /\ D.rB \in RegIds
        /\ D.valC \in Word /\ D.valP \in Word
    BY DEF TypeOK, Stats, RegIds
  <2>3. D' \in {D, Bubble_D, if_id_next}
    BY CycleEffect
  <2>4. "SBUB" \in Stats
    BY DEF Stats
  <2> HIDE DEF Bubble_D, if_id_next
  <2> QED
    BY <2>1, <2>2, <2>3, <2>4, BubbleTypes
<1>3. /\ E'.stat \in Stats /\ E'.dstE \in RegIds /\ E'.dstM \in RegIds
      /\ E'.valC \in Word /\ E'.valA \in Word /\ E'.valB \in Word
  <2>1. /\ id_ex_next.stat \in Stats /\ id_ex_next.dstE \in RegIds /\ id_ex_next.dstM \in RegIds
        /\ id_ex_next.valC \in Word /\ id_ex_next.valA \in Word /\ id_ex_next.valB \in Word
    BY DecodeTypes DEF id_ex_next, TypeOK, Stats
  <2>2. E' \in {Bubble_E, id_ex_next}
    BY CycleEffect
  <2>3. "SBUB" \in Stats /\ RNONE \in RegIds
    BY DEF Stats, RegIds
  <2> QED
    BY <2>1, <2>2, <2>3, BubbleTypes
<1>4. /\ M'.stat \in Stats /\ M'.dstE \in RegIds /\ M'.dstM \in RegIds
      /\ M'.valE \in Word /\ M'.valA \in Word
  <2>1. /\ ex_mem_next.stat \in Stats /\ ex_mem_next.dstE \in RegIds
        /\ ex_mem_next.dstM \in RegIds /\ ex_mem_next.valE \in Word /\ ex_mem_next.valA \in Word
    BY ExecuteTypes DEF ex_mem_next, TypeOK, Stats, RegIds
  <2>2. M' \in {Bubble_M, ex_mem_next}
    BY CycleEffect
  <2>3. "SBUB" \in Stats /\ RNONE \in RegIds
    BY DEF Stats, RegIds
  <2> QED
    BY <2>1, <2>2, <2>3, BubbleTypes
<1>5. /\ W'.stat \in Stats /\ W'.dstE \in RegIds /\ W'.dstM \in RegIds
      /\ W'.valE \in Word /\ W'.valM \in Word
  BY CycleEffect, MemoryTypes DEF mem_wb_next, TypeOK, Stats, RegIds
<1>6. reg' \in [Regs -> Word]
  BY WritebackType DEF Cycle, TypeOK, RegIds
<1>7. mem' \in [0 .. DataLen - 1 -> Word]
  BY MemoryTypes DEF Cycle
<1>8. cc' \in [zf : BOOLEAN, sf : BOOLEAN, of : BOOLEAN]
  BY CcType DEF Cycle, TypeOK
<1> QED
  BY <1>1, <1>2, <1>3, <1>4, <1>5, <1>6, <1>7, <1>8 DEF TypeOK, Stats, RegIds

\* No pipeline register ever reads STAT_PIP, the state psim gives a register that is told to
\* stall and to take a bubble in the same cycle (pipe-full.hcl: "At most one of these can be
\* true" for D and E), and every signal stays a register or a word.
THEOREM TypeCorrect == Spec => []TypeOK
<1>1. TypeOK /\ [Next]_vars => TypeOK'
  <2>1. CASE Next
    BY <2>1, TypesPreserved DEF Next
  <2>2. CASE UNCHANGED vars
    BY <2>2 DEF vars, TypeOK
  <2> QED
    BY <2>1, <2>2
<1> QED
  BY <1>1, InitTypes, PTL DEF Spec

-----------------------------------------------------------------------------
(* The inductive invariant.                                                *)

LEMMA SetRegAt ==
  ASSUME NEW f \in [Regs -> Word], NEW id \in RegIds, NEW v \in Word, NEW q \in Regs
  PROVE  set_reg_val(f, id, v)[q] = IF id = q THEN v ELSE f[q]
BY Y86Assumption DEF set_reg_val, RegIds

LEMMA WritebackAt ==
  ASSUME NEW f \in [Regs -> Word], NEW e \in RegIds, NEW v \in Word, NEW n \in RegIds, NEW w \in Word,
         NEW q \in Regs
  PROVE  writeback(f, e, v, n, w)[q] = IF n = q THEN w ELSE IF e = q THEN v ELSE f[q]
<1> DEFINE g == set_reg_val(f, e, v)
<1>1. g \in [Regs -> Word]
  BY SetReg
<1>2. g[q] = IF e = q THEN v ELSE f[q]
  BY SetRegAt
<1> HIDE DEF g
<1>3. set_reg_val(g, n, w)[q] = IF n = q THEN w ELSE g[q]
  BY <1>1, SetRegAt
<1> QED
  BY <1>2, <1>3 DEF writeback, g

LEMMA RegistersType ==
  ASSUME TypeOK
  PROVE  writeback(reg, W.dstE, W.valE, W.dstM, W.valM) \in [Regs -> Word]
BY WritebackType DEF TypeOK, RegIds

\* When nothing is in trouble, the registers the program sees are those that W, then M, leave.
LEMMA IsaRegRunning ==
  ASSUME TypeOK, Running
  PROVE  /\ IsaReg = writeback(writeback(reg, W.dstE, W.valE, W.dstM, W.valM),
                               M.dstE, M.valE, M.dstM, m_valM)
         /\ IsaReg \in [Regs -> Word]
<1>1. IsaReg = writeback(writeback(reg, W.dstE, W.valE, W.dstM, W.valM),
                         M.dstE, M.valE, M.dstM, m_valM)
  BY DEF IsaReg, Running
<1>2. M.dstE \in RegIds /\ M.dstM \in RegIds /\ M.valE \in Word
  BY DEF TypeOK, RegIds
<1> DEFINE before == writeback(reg, W.dstE, W.valE, W.dstM, W.valM)
<1>3. before \in [Regs -> Word]
  BY RegistersType
<1> HIDE DEF before
<1>4. writeback(before, M.dstE, M.valE, M.dstM, m_valM) \in [Regs -> Word]
  BY <1>2, <1>3, MemoryTypes, WritebackType
<1> QED
  BY <1>1, <1>4 DEF before

LEMMA RunningBefore ==
  ASSUME TypeOK, Cycle, Running'
  PROVE  /\ Running /\ ~ M_bubble /\ M' = ex_mem_next /\ W' = mem_wb_next
         /\ prog' = prog
<1>1. W' = mem_wb_next
  BY CycleEffect
<1>2. m_stat \notin Exceptions
  BY <1>1 DEF Running, mem_wb_next
<1> QED
  BY <1>1, <1>2, CycleEffect DEF Running, M_bubble, Exceptions, Cycle

\* The instruction that leaves E for M takes effect.
LEMMA IsaRegStep ==
  ASSUME TypeOK, Cycle, Running'
  PROVE  IsaReg' = writeback(IsaReg, e_dstE, e_valE, E.dstM, m_valM')
<1>1. IsaReg' = writeback(writeback(reg', W'.dstE, W'.valE, W'.dstM, W'.valM),
                          M'.dstE, M'.valE, M'.dstM, m_valM')
  BY DEF IsaReg, Running, writeback, set_reg_val
<1>2. reg' = writeback(reg, W.dstE, W.valE, W.dstM, W.valM)
  BY DEF Cycle
<1>3. /\ W'.dstE = M.dstE /\ W'.valE = M.valE /\ W'.dstM = M.dstM /\ W'.valM = m_valM
      /\ M'.dstE = e_dstE /\ M'.valE = e_valE /\ M'.dstM = E.dstM
  BY RunningBefore DEF ex_mem_next, mem_wb_next
<1>4. IsaReg = writeback(reg', M.dstE, M.valE, M.dstM, m_valM)
  BY <1>2, IsaRegRunning, RunningBefore
<1> QED
  BY <1>1, <1>3, <1>4

LEMMA LoadedLater == TypeOK' => m_valM' \in Word
<1>1. TypeOK => m_valM \in Word
  BY MemoryTypes
<1>2. TypeOK' => (m_valM \in Word)'
  BY <1>1, PTL
<1> QED
  BY <1>2

\* What is forwarded to a source register is what the instructions ahead leave there, unless
\* the one in E is still to load it.
LEMMA ForwardIsCurrent ==
  ASSUME TypeOK, Cycle, Running', NEW q \in Regs
  PROVE  E.dstM # q => forward(q) = IsaReg'[q]
<1> DEFINE before == writeback(reg, W.dstE, W.valE, W.dstM, W.valM)
<1>1. /\ before \in [Regs -> Word]
      /\ before[q] = IF W.dstM = q THEN W.valM ELSE IF W.dstE = q THEN W.valE ELSE reg[q]
  <2>1. /\ W.dstE \in RegIds /\ W.dstM \in RegIds /\ W.valE \in Word /\ W.valM \in Word
        /\ reg \in [Regs -> Word]
    BY DEF TypeOK, RegIds
  <2>2. before[q] = IF W.dstM = q THEN W.valM ELSE IF W.dstE = q THEN W.valE ELSE reg[q]
    BY <2>1, WritebackAt
  <2> QED
    BY <2>1, <2>2, WritebackType
<1>2. IsaReg = writeback(before, M.dstE, M.valE, M.dstM, m_valM) /\ IsaReg \in [Regs -> Word]
  BY IsaRegRunning, RunningBefore
<1> HIDE DEF before
<1>3. IsaReg[q] = IF M.dstM = q THEN m_valM ELSE IF M.dstE = q THEN M.valE ELSE before[q]
  <2>1. M.dstE \in RegIds /\ M.dstM \in RegIds /\ M.valE \in Word /\ m_valM \in Word
    BY MemoryTypes DEF TypeOK, RegIds
  <2>2. writeback(before, M.dstE, M.valE, M.dstM, m_valM)[q]
          = IF M.dstM = q THEN m_valM ELSE IF M.dstE = q THEN M.valE ELSE before[q]
    BY <1>1, <2>1, WritebackAt
  <2> QED
    BY <1>2, <2>2
<1>4. E.dstM # q => IsaReg'[q] = IF e_dstE = q THEN e_valE ELSE IsaReg[q]
  <2>1. E.dstM \in RegIds /\ e_dstE \in RegIds /\ e_valE \in Word
    BY ExecuteTypes DEF TypeOK, RegIds
  <2>2. m_valM' \in Word
    BY TypesPreserved, LoadedLater
  <2>3. writeback(IsaReg, e_dstE, e_valE, E.dstM, m_valM')[q]
          = IF E.dstM = q THEN m_valM' ELSE IF e_dstE = q THEN e_valE ELSE IsaReg[q]
    BY <1>2, <2>1, <2>2, WritebackAt
  <2> QED
    BY <2>3, IsaRegStep
<1>5. get_reg_val(reg, q) = reg[q]
  BY Y86Assumption DEF get_reg_val
<1> QED
  BY <1>1, <1>3, <1>4, <1>5 DEF forward

LEMMA SourcesOf ==
  ASSUME PipeInv, D.stat # "SBUB"
  PROVE  /\ D.icode = InstrAt(D.pc).icode
         /\ d_srcA = SrcA(InstrAt(D.pc)) /\ d_srcB = SrcB(InstrAt(D.pc))
         /\ d_dstE = DstE(InstrAt(D.pc)) /\ d_dstM = DstM(InstrAt(D.pc))
BY DEF PipeInv, DIsFetched, d_srcA, d_srcB, d_dstE, d_dstM, SrcA, SrcB, DstE, DstM

\* Only a load has a register to load, so no other instruction makes the next one wait.
LEMMA OnlyLoadsLoad ==
  ASSUME PipeInv
  PROVE  E.dstM # RNONE => E.icode \in {"mrmovq", "popq"}
BY DEF PipeInv, EIsDecoded, BubblesAreEmpty, DstM

LEMMA PcsPreserved ==
  ASSUME PipeInv, Cycle
  PROVE  PcsAreWords'
<1>1. Bubble_D.pc \in Word /\ Bubble_E.pc \in Word
  BY SmallWords DEF Bubble_D, Bubble_E
<1>2. if_id_next.pc \in Word /\ id_ex_next.pc \in Word /\ D.pc \in Word
  BY FetchTypes DEF PipeInv, PcsAreWords, if_id_next, id_ex_next
<1>3. D' \in {D, Bubble_D, if_id_next} /\ E' \in {Bubble_E, id_ex_next}
  BY CycleEffect DEF PipeInv
<1> QED
  BY <1>1, <1>2, <1>3 DEF PcsAreWords

LEMMA BubblesPreserved ==
  ASSUME PipeInv, Cycle
  PROVE  BubblesAreEmpty'
<1>1. D'.stat = "SBUB" => D'.icode = "nop"
  <2>1. D'.stat = "SBUB" => D' = Bubble_D \/ D' = D
    BY CycleEffect, FetchTypes DEF PipeInv, if_id_next
  <2> QED
    BY <2>1, BubbleTypes DEF PipeInv, BubblesAreEmpty
<1>2. E'.stat = "SBUB" => E'.icode = "nop" /\ E'.dstE = RNONE /\ E'.dstM = RNONE
  <2>1. CASE E' = Bubble_E
    BY <2>1, BubbleTypes
  <2>2. CASE E' = id_ex_next
    BY <2>2 DEF PipeInv, BubblesAreEmpty, id_ex_next, d_dstE, d_dstM
  <2> QED
    BY <2>1, <2>2, CycleEffect DEF PipeInv
<1>3. M'.stat = "SBUB" => M'.icode = "nop" /\ M'.dstE = RNONE /\ M'.dstM = RNONE
  <2>1. CASE M' = Bubble_M
    BY <2>1, BubbleTypes
  <2>2. CASE M' = ex_mem_next
    BY <2>2 DEF PipeInv, BubblesAreEmpty, ex_mem_next, e_dstE
  <2> QED
    BY <2>1, <2>2, CycleEffect DEF PipeInv
<1> QED
  BY <1>1, <1>2, <1>3 DEF BubblesAreEmpty

LEMMA FetchPreserved ==
  ASSUME PipeInv, Cycle
  PROVE  DIsFetched'
<1>1. prog' = prog
  BY DEF Cycle
<1>2. CASE D' = D
  BY <1>1, <1>2 DEF PipeInv, DIsFetched, InstrAt, StatAt, NextOf
<1>3. CASE D' = Bubble_D
  BY <1>3, BubbleTypes DEF DIsFetched
<1>4. CASE D' = if_id_next
  <2>1. D'.pc = f_pc
    BY <1>4 DEF if_id_next
  <2>2. /\ InstrAt(D.pc)' = InstrAt(f_pc)
        /\ StatAt(D.pc)' = StatAt(f_pc)
        /\ NextOf(D.pc)' = NextOf(f_pc)
    BY <1>1, <2>1 DEF InstrAt, StatAt, NextOf
  <2>3. /\ fetched = InstrAt(f_pc) /\ f_stat = StatAt(f_pc) /\ f_valP = NextOf(f_pc)
    BY FetchTypes DEF PipeInv
  <2> QED
    BY <1>4, <2>2, <2>3 DEF DIsFetched, if_id_next
<1> QED
  BY <1>2, <1>3, <1>4, CycleEffect DEF PipeInv

LEMMA DecodePreserved ==
  ASSUME PipeInv, Cycle
  PROVE  EIsDecoded'
<1>1. prog' = prog
  BY DEF Cycle
<1>2. CASE E' = Bubble_E
  BY <1>2, BubbleTypes DEF EIsDecoded
<1>3. CASE E' = id_ex_next
  <2> SUFFICES ASSUME D.stat # "SBUB" PROVE EIsDecoded'
    BY <1>3 DEF EIsDecoded, id_ex_next
  <2>1. E'.pc = D.pc
    BY <1>3 DEF id_ex_next
  <2>2. /\ InstrAt(E.pc)' = InstrAt(D.pc)
        /\ StatAt(E.pc)' = StatAt(D.pc)
    BY <1>1, <2>1 DEF InstrAt, StatAt
  <2>3. /\ D.stat = StatAt(D.pc) /\ D.icode = InstrAt(D.pc).icode
        /\ D.ifun = InstrAt(D.pc).ifun /\ D.valC = InstrAt(D.pc).valC
    BY DEF PipeInv, DIsFetched
  <2> QED
    BY <1>3, <2>2, <2>3, SourcesOf DEF EIsDecoded, id_ex_next, DstE, DstM
<1> QED
  BY <1>2, <1>3, CycleEffect DEF PipeInv

LEMMA OperandsPreserved ==
  ASSUME PipeInv, Cycle
  PROVE  OperandsAreCurrent'
<1> SUFFICES ASSUME Running', E'.stat # "SBUB"
             PROVE  LET i == InstrAt(E.pc)'
                    IN  /\ i.icode \in {"call", "jxx"} => E'.valA = NextOf(E.pc)'
                        /\ i.icode \notin {"call", "jxx"} /\ SrcA(i) # RNONE
                             => E'.valA = IsaReg'[SrcA(i)]
                        /\ SrcB(i) # RNONE => E'.valB = IsaReg'[SrcB(i)]
  BY DEF OperandsAreCurrent, SrcA, SrcB
<1>1. E' = id_ex_next /\ ~ E_bubble /\ D.stat # "SBUB"
  <2>1. E' # Bubble_E
    BY BubbleTypes
  <2>2. E' = id_ex_next /\ ~ E_bubble
    BY <2>1, CycleEffect DEF PipeInv
  <2> QED
    BY <2>2 DEF id_ex_next
<1>2. InstrAt(E.pc)' = InstrAt(D.pc) /\ NextOf(E.pc)' = NextOf(D.pc)
  <2>1. prog' = prog
    BY DEF Cycle
  <2>2. E'.pc = D.pc
    BY <1>1 DEF id_ex_next
  <2> QED
    BY <2>1, <2>2 DEF InstrAt, NextOf
<1>3. ASSUME NEW q \in {d_srcA, d_srcB}, q # RNONE
      PROVE  forward(q) = IsaReg'[q]
  <2>1. q \in Regs
    BY <1>3, DecodeTypes DEF PipeInv, RegIds
  <2>2. E.dstM # q
    BY <1>1, <1>3, OnlyLoadsLoad DEF E_bubble, load_use
  <2> QED
    BY <2>1, <2>2, ForwardIsCurrent DEF PipeInv
<1>4. D.icode \in {"call", "jxx"} => d_valA = NextOf(D.pc)
  BY <1>1 DEF d_valA, PipeInv, DIsFetched
<1>5. E'.valA = d_valA /\ E'.valB = d_valB
  BY <1>1 DEF id_ex_next
<1>6. D.icode \notin {"call", "jxx"} /\ d_srcA # RNONE => d_valA = IsaReg'[d_srcA]
  BY <1>3 DEF d_valA
<1>7. d_srcB # RNONE => d_valB = IsaReg'[d_srcB]
  BY <1>3 DEF d_valB
<1> HIDE DEF OperandsAreCurrent
<1> QED
  BY <1>1, <1>2, <1>4, <1>5, <1>6, <1>7, SourcesOf

LEMMA PathPreserved ==
  ASSUME PipeInv, Cycle
  PROVE  PathIsFollowed'
<1> SUFFICES ASSUME Running' PROVE PathIsFollowed'
  BY DEF PathIsFollowed
<1>1. Running /\ M' = ex_mem_next /\ W' = mem_wb_next /\ prog' = prog
  BY RunningBefore DEF PipeInv
<1>2. /\ M'.icode = E.icode /\ M'.stat = E.stat /\ M'.Cnd = e_Cnd /\ W'.icode = M.icode
      /\ Squashing' = mispredicted
  BY <1>1 DEF ex_mem_next, mem_wb_next, Squashing, mispredicted
<1>3. /\ E.stat # "SBUB" => /\ M.icode # "ret" /\ W.icode # "ret" /\ ~ Squashing
                            /\ E.icode = "ret" => D.stat = "SBUB"
                            /\ E.icode # "ret" => D.stat # "SBUB" /\ D.pc = PredictedAt(E.pc)
      /\ D.stat # "SBUB" => /\ M.icode # "ret" /\ W.icode # "ret" /\ ~ Squashing
                            /\ D.icode # "ret" => f_pc = PredictedAt(D.pc)
      /\ W.icode = "ret" => M.stat = "SBUB"
  BY <1>1 DEF PipeInv, PathIsFollowed
<1>4. E.stat = "SBUB" => E.icode = "nop"
  BY DEF PipeInv, BubblesAreEmpty
<1>5. W'.icode = "ret" => M'.stat = "SBUB"
  BY <1>2, <1>3
<1>6. ASSUME E'.stat # "SBUB"
      PROVE  /\ M'.icode # "ret" /\ W'.icode # "ret" /\ ~ Squashing'
             /\ E'.icode = "ret" => D'.stat = "SBUB"
             /\ E'.icode # "ret" => D'.stat # "SBUB" /\ D'.pc = PredictedAt(E.pc)'
  <2>1. E' = id_ex_next /\ ~ E_bubble
    BY <1>6, CycleEffect, BubbleTypes DEF PipeInv
  <2>2. D.stat # "SBUB" /\ E'.icode = D.icode /\ E'.pc = D.pc
    BY <1>6, <2>1 DEF id_ex_next
  <2>3. ~ mispredicted /\ ~ load_use /\ ~ D_stall
    BY <2>1 DEF E_bubble, D_stall
  <2>4. M'.icode # "ret" /\ W'.icode # "ret" /\ ~ Squashing'
    BY <1>2, <1>3, <1>4, <2>2, <2>3
  <2>5. CASE D.icode = "ret"
    <3>1. D' = Bubble_D
      BY <2>3, <2>5, CycleEffect DEF PipeInv, D_bubble, returning
    <3> QED
      BY <2>2, <2>4, <2>5, <3>1, BubbleTypes
  <2>6. CASE D.icode # "ret"
    <3>1. ~ returning
      BY <1>2, <1>3, <2>2, <2>4, <2>6 DEF returning
    <3>2. D' = if_id_next
      BY <2>3, <3>1, CycleEffect DEF PipeInv, D_bubble
    <3>3. D'.stat # "SBUB" /\ D'.pc = f_pc
      BY <3>2, FetchTypes DEF PipeInv, if_id_next
    <3>4. PredictedAt(E.pc)' = PredictedAt(D.pc)
      BY <1>1, <2>2 DEF PredictedAt, InstrAt, NextOf
    <3> QED
      BY <1>3, <2>2, <2>4, <2>6, <3>3, <3>4
  <2> QED
    BY <2>5, <2>6
<1>7. ASSUME D'.stat # "SBUB"
      PROVE  /\ M'.icode # "ret" /\ W'.icode # "ret" /\ ~ Squashing'
             /\ D'.icode # "ret" => f_pc' = PredictedAt(D.pc)'
  <2>1. D' # Bubble_D
    BY <1>7, BubbleTypes
  <2>2. CASE load_use
    <3>1. D' = D /\ F_predPC' = F_predPC
      BY <2>2, CycleEffect DEF PipeInv, D_stall, Cycle, F_stall
    <3>2. E.icode \in {"mrmovq", "popq"} /\ ~ mispredicted
      BY <2>2 DEF load_use, mispredicted
    <3>3. M'.icode # "ret" /\ W'.icode # "ret" /\ ~ Squashing'
      BY <1>2, <1>3, <1>7, <3>1, <3>2
    <3>4. f_pc' = F_predPC'
      BY <3>3 DEF f_pc, Squashing
    <3>5. f_pc = F_predPC
      BY <1>3, <1>7, <3>1 DEF f_pc, Squashing
    <3>6. PredictedAt(D.pc)' = PredictedAt(D.pc)
      BY <1>1, <3>1 DEF PredictedAt, InstrAt, NextOf
    <3> QED
      BY <1>3, <1>7, <3>1, <3>3, <3>4, <3>5, <3>6
  <2>3. CASE ~ load_use
    <3>1. D' = if_id_next /\ ~ mispredicted /\ ~ returning
      BY <2>1, <2>3, CycleEffect DEF PipeInv, D_stall, D_bubble
    <3>2. M'.icode # "ret" /\ W'.icode # "ret" /\ ~ Squashing'
      BY <1>2, <3>1 DEF returning
    <3>3. f_pc' = F_predPC'
      BY <3>2 DEF f_pc, Squashing
    <3>4. F_predPC' = PredictedAt(f_pc)
      BY <2>3, <3>1, FetchTypes DEF PipeInv, Cycle, F_stall
    <3>5. D'.pc = f_pc
      BY <3>1 DEF if_id_next
    <3>6. PredictedAt(D.pc)' = PredictedAt(f_pc)
      BY <1>1, <3>5 DEF PredictedAt, InstrAt, NextOf
    <3> QED
      BY <3>2, <3>3, <3>4, <3>6
  <2> QED
    BY <2>2, <2>3
<1> QED
  BY <1>5, <1>6, <1>7 DEF PathIsFollowed

LEMMA InitInv == Init => PipeInv
<1> SUFFICES ASSUME Init PROVE PipeInv
  OBVIOUS
<1>1. D = Bubble_D /\ E = Bubble_E /\ M = Bubble_M /\ W = Bubble_W
  BY DEF Init
<1>2. BubblesAreEmpty /\ DIsFetched /\ EIsDecoded /\ OperandsAreCurrent
  BY <1>1, BubbleTypes DEF BubblesAreEmpty, DIsFetched, EIsDecoded, OperandsAreCurrent
<1>3. W.icode # "ret"
  BY <1>1 DEF Bubble_W
<1>4. PathIsFollowed
  BY <1>1, <1>3, BubbleTypes DEF PathIsFollowed
<1>5. PcsAreWords
  BY <1>1, SmallWords DEF PcsAreWords, Bubble_D, Bubble_E
<1> QED
  BY <1>2, <1>4, <1>5, InitTypes DEF PipeInv

LEMMA UnchangedInv == PipeInv /\ UNCHANGED vars => PipeInv'
<1> SUFFICES ASSUME PipeInv, UNCHANGED vars PROVE PipeInv'
  OBVIOUS
<1> USE DEF vars
<1>1. TypeOK'
  BY DEF PipeInv, TypeOK
<1>2. BubblesAreEmpty' /\ PcsAreWords'
  BY DEF PipeInv, BubblesAreEmpty, PcsAreWords
<1>3. DIsFetched' /\ EIsDecoded'
  BY DEF PipeInv, DIsFetched, EIsDecoded, InstrAt, StatAt, NextOf
<1>4. m_stat' = m_stat /\ m_valM' = m_valM
  BY DEF m_stat, m_valM, dmem_error, mem_read, mem_write, mem_addr
<1>5. Running' = Running /\ IsaReg' = IsaReg
  BY <1>4 DEF Running, IsaReg, writeback, set_reg_val, moved
<1>6. OperandsAreCurrent'
  BY <1>5 DEF PipeInv, OperandsAreCurrent, InstrAt, NextOf
<1>7. f_pc' = f_pc /\ Squashing' = Squashing
  BY DEF f_pc, Squashing
<1>8. PathIsFollowed'
  BY <1>5, <1>7 DEF PipeInv, PathIsFollowed, PredictedAt, InstrAt, NextOf
<1> QED
  BY <1>1, <1>2, <1>3, <1>6, <1>8 DEF PipeInv

LEMMA InvPreserved == PipeInv /\ [Next]_vars => PipeInv'
<1> SUFFICES ASSUME PipeInv, Cycle PROVE PipeInv'
  BY UnchangedInv DEF Next
<1> QED
  BY TypesPreserved, PcsPreserved, BubblesPreserved, FetchPreserved, DecodePreserved, OperandsPreserved,
     PathPreserved DEF PipeInv

LEMMA Invariance == Spec => []PipeInv
BY InitInv, InvPreserved, PTL DEF Spec

-----------------------------------------------------------------------------
(* The pipeline implements the instruction set.                            *)

\* Programs in which an instruction that reads a register names one.  A load or a store with
\* no base register is outside it: the pipeline forwards to "no register".
NamesItsRegisters(i) ==
  /\ i.icode \in {"rrmovq", "rmmovq", "opq", "pushq"} => i.rA \in Regs
  /\ i.icode \in {"opq", "rmmovq", "mrmovq", "iaddq"} => i.rB \in Regs
RegistersNamed == \A p \in Programs : \A k \in 1 .. Len(p) : NamesItsRegisters(p[k])

LEMMA ModSmall == ASSUME NEW n \in Word PROVE n % Size = n
BY Y86Assumption DEF Word

LEMMA ModBelow == ASSUME NEW n \in Word PROVE (Minus(1) + n) % Size = (n - 1) % Size
<1>1. CASE n = 0
  <2>1. (Size - 1) % Size = Size - 1
    BY Y86Assumption, ModSmall DEF Word
  <2>2. (0 - 1) % Size = Size - 1
    BY Y86Assumption
  <2> QED
    BY <1>1, <2>1, <2>2, Y86Assumption DEF Minus
<1>2. CASE n # 0
  <2>1. n - 1 \in Word
    BY <1>2, Y86Assumption DEF Word
  <2>2. (n - 1) % Size = n - 1
    BY <2>1, ModSmall
  <2>3. (Size + (n - 1)) % Size = n - 1
    BY <2>1, Y86Assumption DEF Word
  <2>4. Minus(1) + n = Size + (n - 1)
    BY Y86Assumption DEF Minus, Word
  <2> QED
    BY <2>2, <2>3, <2>4
<1> QED
  BY <1>1, <1>2

\* What the execute stage computes, by instruction.
LEMMA ExecuteResult ==
  ASSUME TypeOK
  PROVE  /\ E.icode = "rrmovq" => e_valE = E.valA
         /\ E.icode = "irmovq" => e_valE = E.valC
         /\ E.icode \in {"rmmovq", "mrmovq"} => e_valE = (E.valB + E.valC) % Size
         /\ E.icode = "opq" => e_valE = compute_alu(E.ifun, E.valA, E.valB)
         /\ E.icode = "iaddq" => e_valE = compute_alu("add", E.valC, E.valB)
         /\ E.icode \in {"pushq", "call"} => e_valE = (E.valB - 1) % Size
         /\ E.icode \in {"popq", "ret"} => e_valE = (E.valB + 1) % Size
<1>1. E.valA \in Word /\ E.valB \in Word /\ E.valC \in Word
  BY DEF TypeOK
<1>2. E.icode = "rrmovq" => e_valE = (E.valA + 0) % Size
  BY DEF e_valE, alufun, aluA, aluB, compute_alu
<1>3. E.icode = "irmovq" => e_valE = (E.valC + 0) % Size
  BY DEF e_valE, alufun, aluA, aluB, compute_alu
<1>4. E.valA + 0 = E.valA /\ E.valC + 0 = E.valC /\ E.valC + E.valB = E.valB + E.valC
      /\ 1 + E.valB = E.valB + 1
  BY <1>1, Y86Assumption DEF Word
<1>5. E.icode \in {"rmmovq", "mrmovq"} => e_valE = (E.valC + E.valB) % Size
  BY DEF e_valE, alufun, aluA, aluB, compute_alu
<1>6. E.icode = "opq" => e_valE = compute_alu(E.ifun, E.valA, E.valB)
  BY DEF e_valE, alufun, aluA, aluB
<1>7. E.icode = "iaddq" => e_valE = compute_alu("add", E.valC, E.valB)
  BY DEF e_valE, alufun, aluA, aluB
<1>8. E.icode \in {"pushq", "call"} => e_valE = (Minus(1) + E.valB) % Size
  BY DEF e_valE, alufun, aluA, aluB, compute_alu
<1>9. E.icode \in {"popq", "ret"} => e_valE = (1 + E.valB) % Size
  BY DEF e_valE, alufun, aluA, aluB, compute_alu
<1> QED
  BY <1>1, <1>2, <1>3, <1>4, <1>5, <1>6, <1>7, <1>8, <1>9, ModSmall, ModBelow

\* The instruction in E is the one the instruction set executes next, with its operands.
Executing == PipeInv /\ RegistersNamed /\ Cycle /\ Running /\ E.stat # "SBUB"

LEMMA ExecutesNext ==
  ASSUME Executing
  PROVE  /\ IsaPc = E.pc /\ IsaStat = "SAOK" /\ IsaReg \in [Regs -> Word]
         /\ M' = ex_mem_next /\ W' = mem_wb_next /\ W'.stat \notin Exceptions
         /\ mem' = mem_update /\ prog' = prog
         /\ m_stat' = IF dmem_error' THEN "SADR" ELSE E.stat
<1> USE DEF Executing
<1>1. IsaPc = E.pc /\ IsaStat = "SAOK" /\ IsaReg \in [Regs -> Word]
  BY IsaRegRunning DEF PipeInv, Running, IsaPc, IsaStat
<1>2. M' = ex_mem_next /\ W' = mem_wb_next
  BY CycleEffect DEF PipeInv, M_bubble, Running
<1>3. W'.stat \notin Exceptions
  BY <1>2 DEF mem_wb_next, Running
<1>4. mem' = mem_update /\ prog' = prog
  BY DEF Cycle
<1>5. m_stat' = IF dmem_error' THEN "SADR" ELSE E.stat
  BY <1>2 DEF m_stat, ex_mem_next
<1> QED
  BY <1>1, <1>2, <1>3, <1>4, <1>5

LEMMA OperandsOf ==
  ASSUME Executing, InCode(E.pc)
  PROVE  /\ E.icode = I!Instruction.icode /\ E.ifun = I!Instruction.ifun
         /\ E.valC = I!Instruction.valC
         /\ E.dstE = DstE(I!Instruction) /\ E.dstM = DstM(I!Instruction)
         /\ E.icode \in {"rrmovq", "rmmovq", "opq", "pushq"} => E.valA = I!A
         /\ E.icode \in {"opq", "rmmovq", "mrmovq", "iaddq"} => E.valB = I!B
         /\ E.icode \in {"popq", "ret"} => E.valA = IsaReg[RSP]
         /\ E.icode \in {"pushq", "popq", "call", "ret"} => E.valB = IsaReg[RSP]
         /\ E.icode \in {"call", "jxx"} => E.valA = I!ftpc
         /\ E.stat = IF E.icode = "bad" THEN "SINS" ELSE IF E.icode = "halt" THEN "SHLT" ELSE "SAOK"
<1> DEFINE i == get_instr(prog, E.pc)
<1>1. InstrAt(E.pc) = i /\ I!Instruction = i
  BY ExecutesNext DEF InstrAt, I!Instruction, I!get_instr, get_instr, I!HALT, HALT
<1>2. NamesItsRegisters(i)
  <2>1. prog \in Programs /\ prog \in Seq(Instr) /\ E.pc \in Nat
    BY PipeAssumption, Y86Assumption DEF Executing, PipeInv, TypeOK, PcsAreWords, Word
  <2>2. CASE E.pc < Len(prog)
    <3>1. E.pc + 1 \in 1 .. Len(prog)
      BY <2>1, <2>2
    <3> QED
      BY <2>1, <2>2, <3>1 DEF Executing, RegistersNamed, get_instr
  <2>3. CASE ~ (E.pc < Len(prog))
    BY <2>3 DEF get_instr, HALT, NamesItsRegisters
  <2> QED
    BY <2>2, <2>3
<1> HIDE DEF i
<1>3. /\ E.icode = i.icode /\ E.ifun = i.ifun /\ E.valC = i.valC
      /\ E.dstE = DstE(i) /\ E.dstM = DstM(i)
      /\ E.stat = IF i.icode = "bad" THEN "SINS" ELSE IF i.icode = "halt" THEN "SHLT" ELSE "SAOK"
  BY <1>1 DEF Executing, PipeInv, EIsDecoded, StatAt
<1>4. /\ i.icode \in {"call", "jxx"} => E.valA = NextOf(E.pc)
      /\ i.icode \notin {"call", "jxx"} /\ SrcA(i) # RNONE => E.valA = IsaReg[SrcA(i)]
      /\ SrcB(i) # RNONE => E.valB = IsaReg[SrcB(i)]
  BY <1>1 DEF Executing, PipeInv, OperandsAreCurrent
<1>5. NextOf(E.pc) = I!ftpc
  BY ExecutesNext DEF NextOf, I!ftpc
<1>6. E.icode \in {"rrmovq", "rmmovq", "opq", "pushq"} => E.valA = I!A
  BY <1>1, <1>2, <1>3, <1>4, Y86Assumption DEF SrcA, NamesItsRegisters, I!A, I!get_reg_val
<1>7. E.icode \in {"opq", "rmmovq", "mrmovq", "iaddq"} => E.valB = I!B
  BY <1>1, <1>2, <1>3, <1>4, Y86Assumption DEF SrcB, NamesItsRegisters, I!B, I!get_reg_val
<1>8. /\ E.icode \in {"popq", "ret"} => E.valA = IsaReg[RSP]
      /\ E.icode \in {"pushq", "popq", "call", "ret"} => E.valB = IsaReg[RSP]
  BY <1>3, <1>4, Y86Assumption DEF SrcA, SrcB
<1> QED
  BY <1>1, <1>3, <1>4, <1>5, <1>6, <1>7, <1>8

\* The memory stage, a cycle later, works on what the execute stage computed.
LEMMA MemoryNext ==
  ASSUME Executing
  PROVE  /\ dmem_error' = /\ E.icode \in {"mrmovq", "popq", "ret", "rmmovq", "pushq", "call"}
                          /\ ~ InData(IF E.icode \in {"popq", "ret"} THEN E.valA ELSE e_valE)
         /\ E.icode \in {"mrmovq", "popq", "ret"} /\ ~ dmem_error'
              => m_valM' = mem_update[IF E.icode \in {"popq", "ret"} THEN E.valA ELSE e_valE]
         /\ E.icode \in {"rmmovq", "pushq", "call"} /\ ~ dmem_error'
              => mem_update' = [mem_update EXCEPT ![e_valE] = E.valA]
         /\ E.icode \notin {"rmmovq", "pushq", "call"} \/ dmem_error' => mem_update' = mem_update
<1>1. M'.icode = E.icode /\ M'.valE = e_valE /\ M'.valA = E.valA /\ mem' = mem_update
  BY ExecutesNext DEF ex_mem_next
<1>2. /\ mem_addr' = IF E.icode \in {"popq", "ret"} THEN E.valA ELSE e_valE
      /\ mem_read' = (E.icode \in {"mrmovq", "popq", "ret"})
      /\ mem_write' = (E.icode \in {"rmmovq", "pushq", "call"})
  BY <1>1 DEF mem_addr, mem_read, mem_write
<1>3. dmem_error' = /\ E.icode \in {"mrmovq", "popq", "ret", "rmmovq", "pushq", "call"}
                    /\ ~ InData(IF E.icode \in {"popq", "ret"} THEN E.valA ELSE e_valE)
  BY <1>2 DEF dmem_error, InData
<1>4. /\ m_valM' = IF mem_read' /\ ~ dmem_error' THEN mem'[mem_addr'] ELSE 0
      /\ mem_update' = IF mem_write' /\ ~ dmem_error' THEN [mem' EXCEPT ![mem_addr'] = M'.valA] ELSE mem'
  BY DEF m_valM, mem_update
<1> QED
  BY <1>1, <1>2, <1>3, <1>4

IsaView == <<prog, IsaPc, IsaReg, mem_update, cc, IsaStat>>

\* The instruction in E raises an exception: it changes nothing but the stack pointer.
LEMMA Faults ==
  ASSUME Executing, m_stat' \in Exceptions
  PROVE  /\ IsaPc' = IsaPc /\ IsaStat' = m_stat' /\ mem_update' = mem_update /\ cc' = cc /\ prog' = prog
         /\ IsaReg' = IF m_stat' = "SADR" /\ E.icode \in {"pushq", "call", "popq"}
                      THEN set_reg_val(IsaReg, RSP, e_valE) ELSE IsaReg
<1>1. IsaPc' = IsaPc
  BY ExecutesNext DEF IsaPc, ex_mem_next
<1>2. IsaStat' = m_stat'
  BY ExecutesNext DEF IsaStat
<1>3. dmem_error' \/ E.icode \in {"nop", "bad", "halt"}
  <2> SUFFICES ASSUME ~ dmem_error' PROVE E.icode \in {"nop", "bad", "halt"}
    OBVIOUS
  <2>1. E.stat \in Exceptions
    BY ExecutesNext
  <2>2. E.stat = StatAt(E.pc) /\ E.icode = InstrAt(E.pc).icode
    BY DEF Executing, PipeInv, EIsDecoded
  <2>3. ~ InCode(E.pc) => InstrAt(E.pc).icode = "nop"
    BY DEF InstrAt, HALT
  <2> QED
    BY <2>1, <2>2, <2>3 DEF StatAt, Exceptions
<1>4. mem_update' = mem_update
  BY <1>3, MemoryNext
<1>5. cc' = cc
  <2>1. E.icode \notin {"opq", "iaddq"}
    BY <1>3, MemoryNext
  <2> QED
    BY <2>1 DEF Executing, Cycle, set_cc
<1>6. IsaReg' = moved(writeback(reg', W'.dstE, W'.valE, W'.dstM, W'.valM), m_stat', M'.icode, M'.valE)
  BY ExecutesNext DEF IsaReg, writeback, moved, set_reg_val
<1>7. writeback(reg', W'.dstE, W'.valE, W'.dstM, W'.valM) = IsaReg
  <2>1. reg' = writeback(reg, W.dstE, W.valE, W.dstM, W.valM)
    BY DEF Executing, Cycle
  <2>2. W'.dstE = M.dstE /\ W'.valE = M.valE /\ W'.dstM = M.dstM /\ W'.valM = m_valM
    BY ExecutesNext DEF mem_wb_next
  <2> QED
    BY <2>1, <2>2, IsaRegRunning DEF Executing, PipeInv
<1>8. M'.icode = E.icode /\ M'.valE = e_valE
  BY ExecutesNext DEF ex_mem_next
<1> QED
  BY <1>1, <1>2, <1>4, <1>5, <1>6, <1>7, <1>8, ExecutesNext DEF moved

\* The instruction in E raises none: it takes effect, and the next one of the program is at hand.
LEMMA Retires ==
  ASSUME Executing, m_stat' \notin Exceptions
  PROVE  /\ InCode(E.pc) /\ E.stat = "SAOK" /\ ~ dmem_error' /\ IsaStat' = "SAOK" /\ prog' = prog
         /\ IsaReg' = writeback(IsaReg, e_dstE, e_valE, E.dstM, m_valM')
         /\ IsaPc' = IF E.icode = "ret" THEN m_valM'
                     ELSE IF mispredicted THEN E.valA ELSE PredictedAt(E.pc)
         /\ cc' = IF E.icode \in {"opq", "iaddq"} THEN compute_cc(alufun, aluA, aluB) ELSE cc
<1>1. Running'
  BY ExecutesNext DEF Running
<1>2. ~ dmem_error' /\ E.stat \notin Exceptions
  BY ExecutesNext DEF Exceptions
<1>3. E.stat = StatAt(E.pc)
  BY DEF Executing, PipeInv, EIsDecoded
<1>4. InCode(E.pc) /\ E.stat = "SAOK"
  BY <1>2, <1>3 DEF StatAt, Exceptions
<1>5. IsaStat' = "SAOK"
  BY <1>1 DEF IsaStat, Running
<1>6. IsaReg' = writeback(IsaReg, e_dstE, e_valE, E.dstM, m_valM')
  BY <1>1, IsaRegStep DEF Executing, PipeInv
<1>7. cc' = IF E.icode \in {"opq", "iaddq"} THEN compute_cc(alufun, aluA, aluB) ELSE cc
  BY DEF Executing, Cycle, set_cc, Running
<1>8. IsaPc' = IF E'.stat # "SBUB" THEN E'.pc ELSE IF D'.stat # "SBUB" THEN D'.pc
               ELSE IF M'.icode = "ret" THEN m_valM' ELSE f_pc'
  BY <1>1 DEF IsaPc, Running
<1>9. M'.icode = E.icode /\ M'.Cnd = e_Cnd /\ M'.valA = E.valA
  BY ExecutesNext DEF ex_mem_next
<1>10. CASE E.icode = "ret"
  <2>1. D.stat = "SBUB"
    BY <1>10 DEF Executing, PipeInv, PathIsFollowed
  <2>2. ~ load_use /\ ~ mispredicted /\ returning
    BY <1>10 DEF load_use, mispredicted, returning
  <2>3. E' = id_ex_next /\ D' = Bubble_D
    BY <2>2, CycleEffect DEF Executing, PipeInv, D_stall, D_bubble, E_bubble
  <2>4. E'.stat = "SBUB" /\ D'.stat = "SBUB"
    BY <2>1, <2>3, BubbleTypes DEF id_ex_next
  <2>5. IsaPc' = m_valM'
    BY <1>8, <1>9, <1>10, <2>4
  <2> QED
    BY <1>2, <1>4, <1>5, <1>6, <1>7, <1>10, <2>5, ExecutesNext
<1>11. CASE mispredicted
  <2>1. E' = Bubble_E /\ D' = Bubble_D
    BY <1>11, CycleEffect DEF Executing, PipeInv, D_stall, D_bubble, E_bubble, load_use, mispredicted
  <2>2. E'.stat = "SBUB" /\ D'.stat = "SBUB"
    BY <2>1, BubbleTypes
  <2>3. M'.icode = "jxx" /\ ~ M'.Cnd
    BY <1>9, <1>11 DEF mispredicted
  <2>4. IsaPc' = E.valA
    BY <1>8, <1>9, <2>2, <2>3 DEF f_pc
  <2> QED
    BY <1>2, <1>4, <1>5, <1>6, <1>7, <1>9, <1>11, <2>3, <2>4, ExecutesNext
<1>12. CASE E.icode # "ret" /\ ~ mispredicted
  <2>1. D.stat # "SBUB" /\ D.pc = PredictedAt(E.pc)
    BY <1>12 DEF Executing, PipeInv, PathIsFollowed
  <2>2. CASE load_use
    <3>1. E' = Bubble_E /\ D' = D
      BY <2>2, CycleEffect DEF Executing, PipeInv, D_stall, E_bubble
    <3> QED
      BY <1>2, <1>4, <1>5, <1>6, <1>7, <1>8, <1>12, <2>1, <3>1, BubbleTypes, ExecutesNext
  <2>3. CASE ~ load_use
    <3>1. E' = id_ex_next
      BY <1>12, <2>3, CycleEffect DEF Executing, PipeInv, E_bubble
    <3>2. E'.stat # "SBUB" /\ E'.pc = D.pc
      BY <2>1, <3>1 DEF id_ex_next
    <3> QED
      BY <1>2, <1>4, <1>5, <1>6, <1>7, <1>8, <1>12, <2>1, <3>2, ExecutesNext
  <2> QED
    BY <2>2, <2>3
<1> QED
  BY <1>10, <1>11, <1>12

\* An exception in M or W has stopped the program already.
LEMMA StoppedStutters ==
  ASSUME PipeInv, Cycle, m_stat \in Exceptions
  PROVE  IsaView' = IsaView
<1>1. /\ W.stat \notin Exceptions /\ W' = mem_wb_next /\ M' = Bubble_M
      /\ prog' = prog /\ mem' = mem_update
      /\ reg' = writeback(reg, W.dstE, W.valE, W.dstM, W.valM)
  <2>1. W.stat \notin Exceptions /\ W' = mem_wb_next /\ M' = Bubble_M
    BY CycleEffect DEF PipeInv, M_bubble, Exceptions
  <2> QED
    BY <2>1 DEF Cycle
<1>2. /\ W'.stat = m_stat /\ W'.pc = M.pc /\ W'.icode = M.icode /\ W'.valE = M.valE
  BY <1>1 DEF mem_wb_next
<1>3. IsaPc' = IsaPc /\ IsaStat' = IsaStat
  BY <1>1, <1>2 DEF IsaPc, IsaStat
<1>4. IsaReg' = IsaReg
  <2>1. IsaReg' = moved(reg', W'.stat, W'.icode, W'.valE)
    BY <1>2 DEF IsaReg, moved, set_reg_val
  <2>2. IsaReg = moved(writeback(reg, W.dstE, W.valE, W.dstM, W.valM), m_stat, M.icode, M.valE)
    BY <1>1 DEF IsaReg
  <2> QED
    BY <1>1, <1>2, <2>1, <2>2
<1>5. mem_update' = mem_update
  BY <1>1, BubbleTypes DEF mem_update, mem_write
<1>6. cc' = cc
  BY DEF Cycle, set_cc
<1> QED
  BY <1>1, <1>3, <1>4, <1>5, <1>6 DEF IsaView

\* A bubble in E: the program waits, at the instruction in D or about to be fetched.
LEMMA BubbleStutters ==
  ASSUME PipeInv, Cycle, Running, E.stat = "SBUB"
  PROVE  IsaView' = IsaView
<1>1. E.icode = "nop" /\ E.dstE = RNONE /\ E.dstM = RNONE
  BY DEF PipeInv, BubblesAreEmpty
<1>2. /\ M' = ex_mem_next /\ W' = mem_wb_next
  BY CycleEffect DEF PipeInv, M_bubble, Running
<1>3. /\ M'.stat = "SBUB" /\ M'.icode = "nop" /\ W'.stat = m_stat
      /\ W'.icode = M.icode /\ W'.valM = m_valM
  BY <1>1, <1>2 DEF ex_mem_next, mem_wb_next
<1>4. m_stat' = "SBUB"
  BY <1>3 DEF m_stat, dmem_error, mem_read, mem_write
<1>5. Running'
  BY <1>3, <1>4 DEF Running, Exceptions
<1>6. IsaStat' = IsaStat
  BY <1>5 DEF Running, IsaStat
<1>7. mem_update' = mem_update /\ prog' = prog
  BY <1>3 DEF mem_update, mem_write, Cycle
<1>8. cc' = cc
  BY <1>1 DEF Cycle, set_cc
<1>9. IsaReg' = IsaReg
  <2>1. IsaReg' = writeback(IsaReg, e_dstE, e_valE, E.dstM, m_valM')
    BY <1>5, IsaRegStep DEF PipeInv
  <2> QED
    BY <1>1, <2>1 DEF e_dstE, writeback, set_reg_val
<1>10. IsaPc' = IsaPc
  <2>1. IsaPc' = IF E'.stat # "SBUB" THEN E'.pc ELSE IF D'.stat # "SBUB" THEN D'.pc ELSE f_pc'
    BY <1>3, <1>5 DEF IsaPc, Running
  <2>2. IsaPc = IF D.stat # "SBUB" THEN D.pc ELSE IF M.icode = "ret" THEN m_valM ELSE f_pc
    BY DEF IsaPc, Running
  <2>3. ~ load_use /\ ~ mispredicted
    BY <1>1 DEF load_use, mispredicted
  <2>4. E' = id_ex_next
    BY <2>3, CycleEffect DEF PipeInv, E_bubble
  <2>5. E'.stat = D.stat /\ E'.pc = D.pc
    BY <2>4 DEF id_ex_next
  <2>6. CASE D.stat # "SBUB"
    BY <2>1, <2>2, <2>5, <2>6
  <2>7. CASE D.stat = "SBUB" /\ M.icode = "ret"
    <3>1. D' = Bubble_D
      BY <2>3, <2>7, CycleEffect DEF PipeInv, D_stall, D_bubble, returning
    <3>2. f_pc' = m_valM
      BY <1>3, <2>7 DEF f_pc
    <3> QED
      BY <2>1, <2>2, <2>5, <2>7, <3>1, <3>2, BubbleTypes
  <2>8. CASE D.stat = "SBUB" /\ M.icode # "ret"
    <3>1. ~ returning
      BY <1>1, <2>8 DEF returning, PipeInv, BubblesAreEmpty
    <3>2. D' = if_id_next
      BY <2>3, <3>1, CycleEffect DEF PipeInv, D_stall, D_bubble
    <3>3. D'.stat # "SBUB" /\ D'.pc = f_pc
      BY <3>2, FetchTypes DEF PipeInv, if_id_next
    <3> QED
      BY <2>1, <2>2, <2>5, <2>8, <3>3
  <2> QED
    BY <2>6, <2>7, <2>8
<1> QED
  BY <1>6, <1>7, <1>8, <1>9, <1>10 DEF IsaView

\* An instruction that faults is the instruction set's fault.
LEMMA FaultIsIsa ==
  ASSUME Executing, m_stat' \in Exceptions
  PROVE  I!Raise \/ I!StackFault
<1>1. /\ IsaPc' = IsaPc /\ IsaStat' = m_stat' /\ mem_update' = mem_update /\ cc' = cc /\ prog' = prog
      /\ IsaReg' = IF m_stat' = "SADR" /\ E.icode \in {"pushq", "call", "popq"}
                   THEN set_reg_val(IsaReg, RSP, e_valE) ELSE IsaReg
      /\ IsaPc = E.pc /\ IsaStat = "SAOK" /\ m_stat' = IF dmem_error' THEN "SADR" ELSE E.stat
  BY Faults, ExecutesNext
<1>2. ASSUME NEW s, m_stat' = s PROVE I!Stops(s)
  BY <1>1, <1>2 DEF I!Stops
<1>3. CASE ~ InCode(E.pc)
  <2>1. E.icode = "nop" /\ E.stat = "SADR"
    BY <1>3 DEF Executing, PipeInv, EIsDecoded, InstrAt, StatAt, HALT
  <2>2. m_stat' = "SADR" /\ IsaReg' = IsaReg
    BY <1>1, <2>1
  <2> QED
    BY <1>1, <1>2, <1>3, <2>2 DEF I!Raise, I!InCode, InCode
<1>4. CASE InCode(E.pc)
  <2>1. E.icode = I!Instruction.icode
    BY <1>4, OperandsOf
  <2>2. ASSUME NEW S, E.icode \in S PROVE I!Executes(S)
    BY <1>1, <1>4, <2>1, <2>2 DEF I!Executes, I!InCode, InCode
  <2>3. TypeOK
    BY DEF Executing, PipeInv
  <2>4. E.stat = IF E.icode = "bad" THEN "SINS" ELSE IF E.icode = "halt" THEN "SHLT" ELSE "SAOK"
    BY <1>4, OperandsOf
  <2>5. CASE ~ dmem_error'
    <3>1. CASE E.icode = "bad"
      BY <1>1, <1>2, <2>2, <2>4, <2>5, <3>1 DEF I!Raise
    <3>2. CASE E.icode = "halt"
      BY <1>1, <1>2, <2>2, <2>4, <2>5, <3>2 DEF I!Raise
    <3> QED
      BY <1>1, <2>4, <2>5, <3>1, <3>2 DEF Exceptions
  <2>6. CASE dmem_error'
    <3>1. m_stat' = "SADR" /\ I!Stops("SADR")
      BY <1>1, <1>2, <2>6
    <3>2. CASE E.icode \in {"rmmovq", "mrmovq"}
      <4>1. e_valE = I!Address
        BY <1>4, <2>3, <3>2, ExecuteResult, OperandsOf DEF I!Address
      <4>2. ~ I!InData(I!Address)
        BY <2>6, <3>2, <4>1, MemoryNext DEF I!InData, InData
      <4> QED
        BY <1>1, <2>2, <3>1, <3>2, <4>2 DEF I!Raise
    <3>3. CASE E.icode = "ret"
      <4>1. ~ I!InData(IsaReg[RSP])
        BY <1>4, <2>6, <3>3, MemoryNext, OperandsOf DEF I!InData, InData
      <4> QED
        BY <1>1, <2>2, <3>1, <3>3, <4>1 DEF I!Raise
    <3>4. CASE E.icode \in {"pushq", "call"}
      <4>1. e_valE = I!Below
        BY <1>4, <2>3, <3>4, ExecuteResult, OperandsOf DEF I!Below
      <4>2. ~ I!InData(I!Below)
        BY <2>6, <3>4, <4>1, MemoryNext DEF I!InData, InData
      <4>3. IsaReg' = I!set_reg_val(IsaReg, RSP, I!Below)
        BY <1>1, <3>1, <3>4, <4>1 DEF I!set_reg_val, set_reg_val
      <4> QED
        BY <2>2, <3>1, <3>4, <4>2, <4>3 DEF I!StackFault
    <3>5. CASE E.icode = "popq"
      <4>1. e_valE = I!Above
        BY <1>4, <2>3, <3>5, ExecuteResult, OperandsOf DEF I!Above
      <4>2. ~ I!InData(IsaReg[RSP])
        BY <1>4, <2>6, <3>5, MemoryNext, OperandsOf DEF I!InData, InData
      <4>3. IsaReg' = I!set_reg_val(IsaReg, RSP, I!Above)
        BY <1>1, <3>1, <3>5, <4>1 DEF I!set_reg_val, set_reg_val
      <4> QED
        BY <2>2, <3>1, <3>5, <4>2, <4>3 DEF I!StackFault
    <3> QED
      BY <2>6, <3>2, <3>3, <3>4, <3>5, MemoryNext
  <2> QED
    BY <2>5, <2>6
<1> QED
  BY <1>3, <1>4

\* An instruction that retires is a step of the instruction set.
LEMMA RetireIsIsa ==
  ASSUME Executing, m_stat' \notin Exceptions
  PROVE  I!Next
<1>1. /\ InCode(E.pc) /\ E.stat = "SAOK" /\ ~ dmem_error' /\ IsaStat' = "SAOK" /\ prog' = prog
      /\ IsaReg' = writeback(IsaReg, e_dstE, e_valE, E.dstM, m_valM')
      /\ IsaPc' = IF E.icode = "ret" THEN m_valM'
                  ELSE IF mispredicted THEN E.valA ELSE PredictedAt(E.pc)
      /\ cc' = IF E.icode \in {"opq", "iaddq"} THEN compute_cc(alufun, aluA, aluB) ELSE cc
  BY Retires
<1>2. IsaPc = E.pc /\ IsaStat = "SAOK" /\ TypeOK
  BY ExecutesNext DEF Executing, PipeInv
<1>3. /\ E.icode = I!Instruction.icode /\ E.ifun = I!Instruction.ifun
      /\ E.valC = I!Instruction.valC
      /\ E.dstE = DstE(I!Instruction) /\ E.dstM = DstM(I!Instruction)
  BY <1>1, OperandsOf
<1>4. ASSUME NEW S, E.icode \in S PROVE I!Executes(S)
  BY <1>1, <1>2, <1>3, <1>4 DEF I!Executes, I!InCode, InCode
<1>5. ASSUME NEW to, IsaPc' = to PROVE I!Goes(to)
  BY <1>1, <1>5 DEF I!Goes
<1>6. E.icode \notin {"ret", "jxx", "call"} => I!Goes(I!ftpc)
  <2>1. InstrAt(E.pc).icode = E.icode
    BY DEF Executing, PipeInv, EIsDecoded
  <2>2. E.icode \notin {"ret", "jxx", "call"} => IsaPc' = NextOf(E.pc)
    BY <1>1, <2>1 DEF PredictedAt, mispredicted
  <2>3. NextOf(E.pc) = I!ftpc
    BY <1>2 DEF NextOf, I!ftpc
  <2> QED
    BY <1>5, <2>2, <2>3
<1>7. ASSUME NEW f, NEW id, NEW v PROVE I!set_reg_val(f, id, v) = set_reg_val(f, id, v)
  BY DEF I!set_reg_val, set_reg_val
<1>8. E.icode \notin {"mrmovq", "popq"} => IsaReg' = set_reg_val(IsaReg, e_dstE, e_valE)
  BY <1>1, <1>3 DEF DstM, writeback, set_reg_val
<1>9. e_dstE = IF E.icode = "rrmovq" /\ ~ cond_holds(cc, E.ifun) THEN RNONE ELSE E.dstE
  BY DEF e_dstE, e_Cnd
<1>10. E.icode \notin {"opq", "iaddq"} => cc' = cc
  BY <1>1
<1>11. E.icode \notin {"rmmovq", "pushq", "call"} => mem_update' = mem_update
  BY MemoryNext
<1>12. E.icode \in {"nop", "jxx", "rmmovq"} => IsaReg' = IsaReg
  BY <1>3, <1>8, <1>9 DEF DstE, set_reg_val
<1>13. I!cond_holds(cc, E.ifun) = cond_holds(cc, E.ifun)
  BY DEF I!cond_holds, cond_holds
<1>14. CASE E.icode = "nop"
  BY <1>4, <1>6, <1>10, <1>11, <1>12, <1>14 DEF I!Next, I!Nop
<1>15. CASE E.icode \in {"rrmovq", "irmovq"}
  <2>1. e_valE = IF E.icode = "rrmovq" THEN I!A ELSE I!Instruction.valC
    BY <1>1, <1>2, <1>3, <1>15, ExecuteResult, OperandsOf
  <2>2. CASE E.icode = "rrmovq"
    <3>1. IsaReg' = IF cond_holds(cc, E.ifun)
                    THEN set_reg_val(IsaReg, I!Instruction.rB, I!A) ELSE IsaReg
      BY <1>3, <1>8, <1>9, <2>1, <2>2 DEF DstE, set_reg_val
    <3>2. IsaReg' = IF I!cond_holds(cc, I!Instruction.ifun)
                    THEN I!set_reg_val(IsaReg, I!Instruction.rB, I!A) ELSE IsaReg
      BY <1>3, <1>7, <1>13, <3>1
    <3> QED
      BY <1>4, <1>6, <1>10, <1>11, <2>2, <3>2 DEF I!Next, I!Move
  <2>3. CASE E.icode = "irmovq"
    <3>1. IsaReg' = I!set_reg_val(IsaReg, I!Instruction.rB, I!Instruction.valC)
      BY <1>3, <1>7, <1>8, <1>9, <2>1, <2>3 DEF DstE
    <3> QED
      BY <1>4, <1>6, <1>10, <1>11, <2>3, <3>1 DEF I!Next, I!Move
  <2> QED
    BY <1>15, <2>2, <2>3
<1>16. CASE E.icode = "rmmovq"
  <2>1. e_valE = I!Address /\ E.valA = I!A
    BY <1>1, <1>2, <1>16, ExecuteResult, OperandsOf DEF I!Address
  <2>2. I!InData(I!Address) /\ mem_update' = [mem_update EXCEPT ![I!Address] = I!A]
    BY <1>1, <1>16, <2>1, MemoryNext DEF I!InData, InData
  <2> QED
    BY <1>4, <1>6, <1>10, <1>12, <1>16, <2>2 DEF I!Next, I!Store
<1>17. CASE E.icode = "mrmovq"
  <2>1. e_valE = I!Address
    BY <1>1, <1>2, <1>17, ExecuteResult, OperandsOf DEF I!Address
  <2>2. I!InData(I!Address) /\ m_valM' = mem_update[I!Address]
    BY <1>1, <1>17, <2>1, MemoryNext DEF I!InData, InData
  <2>3. E.dstM = I!Instruction.rA /\ e_dstE = RNONE
    BY <1>3, <1>9, <1>17 DEF DstE, DstM
  <2>4. IsaReg' = I!set_reg_val(IsaReg, I!Instruction.rA, mem_update[I!Address])
    BY <1>1, <1>7, <2>2, <2>3 DEF writeback, set_reg_val
  <2> QED
    BY <1>4, <1>6, <1>10, <1>11, <1>17, <2>2, <2>4 DEF I!Next, I!Load
<1>18. CASE E.icode \in {"opq", "iaddq"}
  <2> DEFINE fn == IF E.icode = "opq" THEN E.ifun ELSE "add"
             a == IF E.icode = "opq" THEN I!A ELSE I!Instruction.valC
  <2>1. /\ e_valE = compute_alu(fn, a, I!B) /\ alufun = fn /\ aluA = a /\ aluB = I!B
    BY <1>1, <1>3, <1>18, OperandsOf DEF e_valE, alufun, aluA, aluB
  <2>2. /\ I!compute_alu(fn, a, I!B) = compute_alu(fn, a, I!B)
        /\ I!compute_cc(fn, a, I!B) = compute_cc(fn, a, I!B)
    BY DEF I!compute_alu, compute_alu, I!compute_cc, compute_cc, I!Negative, Negative
  <2>3. e_dstE = I!Instruction.rB
    BY <1>3, <1>9, <1>18 DEF DstE
  <2>4. IsaReg' = I!set_reg_val(IsaReg, I!Instruction.rB, I!compute_alu(fn, a, I!B))
    BY <1>7, <1>8, <1>18, <2>1, <2>2, <2>3
  <2>5. cc' = I!compute_cc(fn, a, I!B)
    BY <1>1, <1>18, <2>1, <2>2
  <2>6. I!Goes(I!ftpc) /\ mem_update' = mem_update
    BY <1>6, <1>11, <1>18
  <2>7. CASE E.icode = "opq"
    BY <1>3, <1>4, <2>4, <2>5, <2>6, <2>7 DEF I!Next, I!Arithmetic
  <2>8. CASE E.icode = "iaddq"
    BY <1>3, <1>4, <2>4, <2>5, <2>6, <2>8 DEF I!Next, I!Arithmetic
  <2> QED
    BY <1>18, <2>7, <2>8
<1>19. CASE E.icode = "jxx"
  <2>1. InstrAt(E.pc).icode = "jxx" /\ InstrAt(E.pc).valC = I!Instruction.valC
    BY <1>3, <1>19 DEF Executing, PipeInv, EIsDecoded
  <2>2. E.valA = I!ftpc
    BY <1>1, <1>19, OperandsOf
  <2>3. IsaPc' = IF cond_holds(cc, E.ifun) THEN I!Instruction.valC ELSE I!ftpc
    BY <1>1, <1>19, <2>1, <2>2 DEF PredictedAt, mispredicted, e_Cnd
  <2>4. I!Goes(IF I!cond_holds(cc, I!Instruction.ifun) THEN I!Instruction.valC ELSE I!ftpc)
    BY <1>3, <1>5, <1>13, <2>3
  <2> QED
    BY <1>4, <1>10, <1>11, <1>12, <1>19, <2>4 DEF I!Next, I!Jump
<1>20. CASE E.icode \in {"call", "pushq"}
  <2>1. e_valE = I!Below /\ e_dstE = RSP
    BY <1>1, <1>2, <1>3, <1>9, <1>20, ExecuteResult, OperandsOf DEF I!Below, DstE
  <2>2. I!InData(I!Below) /\ mem_update' = [mem_update EXCEPT ![I!Below] = E.valA]
    BY <1>1, <1>20, <2>1, MemoryNext DEF I!InData, InData
  <2>3. IsaReg' = I!set_reg_val(IsaReg, RSP, I!Below)
    BY <1>7, <1>8, <1>20, <2>1
  <2>4. CASE E.icode = "call"
    <3>1. InstrAt(E.pc).icode = "call" /\ InstrAt(E.pc).valC = I!Instruction.valC
      BY <1>3, <2>4 DEF Executing, PipeInv, EIsDecoded
    <3>2. E.valA = I!ftpc
      BY <1>1, <2>4, OperandsOf
    <3>3. IsaPc' = I!Instruction.valC
      BY <1>1, <2>4, <3>1 DEF PredictedAt, mispredicted
    <3> QED
      BY <1>4, <1>5, <1>10, <2>2, <2>3, <2>4, <3>2, <3>3 DEF I!Next, I!Call
  <2>5. CASE E.icode = "pushq"
    <3>1. E.valA = I!A
      BY <1>1, <2>5, OperandsOf
    <3> QED
      BY <1>4, <1>6, <1>10, <2>2, <2>3, <2>5, <3>1 DEF I!Next, I!Push
  <2> QED
    BY <1>20, <2>4, <2>5
<1>21. CASE E.icode \in {"ret", "popq"}
  <2>1. e_valE = I!Above /\ e_dstE = RSP /\ E.valA = IsaReg[RSP]
    BY <1>1, <1>2, <1>3, <1>9, <1>21, ExecuteResult, OperandsOf DEF I!Above, DstE
  <2>2. I!InData(IsaReg[RSP]) /\ m_valM' = mem_update[IsaReg[RSP]]
    BY <1>1, <1>21, <2>1, MemoryNext DEF I!InData, InData
  <2>3. CASE E.icode = "ret"
    <3>1. IsaReg' = I!set_reg_val(IsaReg, RSP, I!Above)
      BY <1>7, <1>8, <2>1, <2>3
    <3>2. I!Goes(mem_update[IsaReg[RSP]])
      BY <1>1, <1>5, <2>2, <2>3
    <3> QED
      BY <1>4, <1>10, <1>11, <2>2, <2>3, <3>1, <3>2 DEF I!Next, I!Ret
  <2>4. CASE E.icode = "popq"
    <3>1. E.dstM = I!Instruction.rA
      BY <1>3, <2>4 DEF DstM
    <3>2. IsaReg' = I!set_reg_val(I!set_reg_val(IsaReg, RSP, I!Above), I!Instruction.rA,
                                  mem_update[IsaReg[RSP]])
      BY <1>1, <1>7, <2>1, <2>2, <3>1 DEF writeback
    <3> QED
      BY <1>4, <1>6, <1>10, <1>11, <2>2, <2>4, <3>2 DEF I!Next, I!Pop
  <2> QED
    BY <1>21, <2>3, <2>4
<1>22. E.icode \notin {"bad", "halt"}
  BY <1>1, OperandsOf
<1>23. E.icode \in {"nop", "halt", "rrmovq", "irmovq", "rmmovq", "mrmovq", "opq",
                    "jxx", "call", "ret", "pushq", "popq", "iaddq", "bad"}
  <2>1. I!Instruction \in Instr
    <3>1. E.pc \in Nat /\ prog \in Seq(Instr)
      BY PipeAssumption, Y86Assumption DEF Executing, PipeInv, TypeOK, PcsAreWords, Word
    <3>2. HALT \in Instr
      BY SmallWords DEF HALT, Instr, Conds
    <3>3. E.pc < Len(prog) => prog[E.pc + 1] \in Instr
      BY <3>1
    <3>4. I!Instruction = get_instr(prog, E.pc)
      BY <1>2 DEF I!Instruction, I!get_instr, get_instr, I!HALT, HALT
    <3> QED
      BY <3>2, <3>3, <3>4 DEF get_instr
  <2> QED
    BY <1>3, <2>1 DEF Instr
<1> QED
  BY <1>14, <1>15, <1>16, <1>17, <1>18, <1>19, <1>20, <1>21, <1>22, <1>23

LEMMA InitIsIsa == Init => I!Init
<1> SUFFICES ASSUME Init PROVE I!Init
  OBVIOUS
<1>1. D = Bubble_D /\ E = Bubble_E /\ M = Bubble_M /\ W = Bubble_W /\ F_predPC = 0
      /\ reg = [id \in Regs |-> 0] /\ cc = DEFAULT_CC
  BY DEF Init
<1>2. W.stat = "SBUB" /\ W.icode = "nop" /\ W.dstE = RNONE /\ W.dstM = RNONE
  BY <1>1 DEF Bubble_W
<1>3. m_stat = "SBUB" /\ f_pc = 0
  BY <1>1, <1>2, BubbleTypes DEF m_stat, dmem_error, mem_read, mem_write, f_pc
<1>4. IsaPc = 0 /\ IsaStat = "SAOK"
  BY <1>1, <1>2, <1>3, BubbleTypes DEF IsaPc, IsaStat, Exceptions
<1>5. IsaReg = reg
  BY <1>1, <1>2, <1>3, BubbleTypes DEF IsaReg, Exceptions, writeback, set_reg_val
<1> QED
  BY <1>1, <1>4, <1>5 DEF I!Init, I!DEFAULT_CC, DEFAULT_CC

LEMMA StepIsIsa == RegistersNamed /\ PipeInv /\ [Next]_vars => [I!Next]_IsaView
<1> SUFFICES ASSUME RegistersNamed, PipeInv, [Next]_vars PROVE [I!Next]_IsaView
  OBVIOUS
<1>1. CASE UNCHANGED vars
  <2>1. m_stat' = m_stat /\ m_valM' = m_valM /\ mem_update' = mem_update
    BY <1>1 DEF vars, m_stat, m_valM, mem_update, dmem_error, mem_read, mem_write, mem_addr
  <2>2. IsaReg' = IsaReg
    BY <1>1, <2>1 DEF vars, IsaReg, writeback, set_reg_val, moved
  <2>3. IsaPc' = IsaPc /\ IsaStat' = IsaStat
    BY <1>1, <2>1 DEF vars, IsaPc, IsaStat, f_pc
  <2> QED
    BY <1>1, <2>1, <2>2, <2>3 DEF vars, IsaView
<1>2. CASE Cycle
  <2>1. CASE m_stat \in Exceptions
    BY <1>2, <2>1, StoppedStutters
  <2>2. CASE m_stat \notin Exceptions
    <3>1. Running
      BY <1>2, <2>2, CycleEffect DEF PipeInv, Running, Exceptions
    <3>2. CASE E.stat = "SBUB"
      BY <1>2, <3>1, <3>2, BubbleStutters
    <3>3. CASE E.stat # "SBUB"
      <4>1. Executing
        BY <1>2, <3>1, <3>3 DEF Executing
      <4> QED
        BY <4>1, FaultIsIsa, RetireIsIsa DEF I!Next
    <3> QED
      BY <3>2, <3>3
  <2> QED
    BY <2>1, <2>2
<1> QED
  BY <1>1, <1>2 DEF Next

\* The pipelined processor runs every program, in which instructions name the registers they
\* read, as the instruction-at-a-time simulator isa.c does: for every word size, memory and
\* register file, forwarding, stalls, mispredicted branches, returns and exceptions show no
\* intermediate state.
THEOREM Refinement == RegistersNamed => (Spec => ImplementsIsa)
<1> SUFFICES ASSUME RegistersNamed PROVE Spec => ImplementsIsa
  OBVIOUS
<1>1. ASSUME PipeInv, [Next]_vars PROVE [I!Next]_(I!vars)
  BY <1>1, StepIsIsa DEF IsaView, I!vars
<1> QED
  BY <1>1, InitIsIsa, Invariance, PTL DEF Spec, ImplementsIsa, I!Spec

-----------------------------------------------------------------------------
(* What the condition codes mean.                                          *)

\* The number that a word stands for in two's complement.
Signed(v) == IF Negative(v) THEN v - Size ELSE v

LEMMA Halves == Size \div 2 \in Nat /\ Size = 2 * (Size \div 2)
BY Y86Assumption

LEMMA Difference ==
  ASSUME NEW a \in Word, NEW b \in Word
  PROVE  (b - a) % Size = IF b >= a THEN b - a ELSE b - a + Size
<1>1. CASE b >= a
  <2>1. b - a \in Word
    BY <1>1, Y86Assumption DEF Word
  <2> QED
    BY <1>1, <2>1, ModSmall
<1>2. CASE ~ (b >= a)
  BY <1>2, Y86Assumption DEF Word
<1> QED
  BY <1>1, <1>2

LEMMA ConditionsRead ==
  ASSUME NEW z \in BOOLEAN, NEW s \in BOOLEAN, NEW o \in BOOLEAN
  PROVE  LET after == [zf |-> z, sf |-> s, of |-> o]
         IN  /\ cond_holds(after, "l") <=> s # o
             /\ cond_holds(after, "le") <=> s # o \/ z
             /\ cond_holds(after, "e") <=> z
             /\ cond_holds(after, "ne") <=> ~ z
             /\ cond_holds(after, "ge") <=> s = o
             /\ cond_holds(after, "g") <=> s = o /\ ~ z
<1> DEFINE after == [zf |-> z, sf |-> s, of |-> o]
<1>1. after.zf = z /\ after.sf = s /\ after.of = o
  OBVIOUS
<1> HIDE DEF after
<1> QED
  BY <1>1 DEF cond_holds

\* After a subtraction the jump and move conditions compare the operands as signed numbers,
\* however the subtraction overflows (compute_cc, cond_holds in isa.c).
THEOREM ConditionsCompareSigned ==
  ASSUME NEW a \in Word, NEW b \in Word
  PROVE  LET after == compute_cc("sub", a, b)
         IN  /\ cond_holds(after, "l") <=> Signed(b) < Signed(a)
             /\ cond_holds(after, "le") <=> Signed(b) <= Signed(a)
             /\ cond_holds(after, "e") <=> b = a
             /\ cond_holds(after, "ne") <=> b # a
             /\ cond_holds(after, "ge") <=> Signed(b) >= Signed(a)
             /\ cond_holds(after, "g") <=> Signed(b) > Signed(a)
<1> DEFINE half == Size \div 2
           val == IF b >= a THEN b - a ELSE b - a + Size
           z == val = 0
           s == val >= half
           o == ((a # 0 /\ a < half) <=> b >= half) /\ ~ (val >= half <=> b >= half)
<1>1. compute_cc("sub", a, b) = [zf |-> z, sf |-> s, of |-> o]
  <2>1. (b - a) % Size = val
    BY Difference
  <2>2. a \in Int /\ half \in Int
    BY Halves, Y86Assumption DEF Word
  <2>3. (~ (a >= half)) = (a < half)
    BY <2>2
  <2> HIDE DEF val
  <2>4. (val = 0) = z /\ Negative(val) = s
    BY DEF Negative
  <2>5. /\ (a # 0 /\ ~ Negative(a)) = Negative(b)
        /\ Negative(val) # Negative(b)
        <=> o
    BY <2>3 DEF Negative
  <2> QED
    BY <2>1, <2>4, <2>5 DEF compute_cc, compute_alu
<1>2. half \in Nat /\ Size = 2 * half /\ half > 0 /\ a \in 0 .. Size - 1 /\ b \in 0 .. Size - 1
  BY Halves, Y86Assumption DEF Word
<1>3. Signed(a) = (IF a >= half THEN a - Size ELSE a) /\ Signed(b) = (IF b >= half THEN b - Size ELSE b)
  BY DEF Signed, Negative
<1> HIDE DEF half
<1>4. z <=> b = a
  BY <1>2
<1>5. (s # o) <=> Signed(b) < Signed(a)
  <2>1. CASE b >= a
    BY <1>2, <1>3, <2>1
  <2>2. CASE b < a
    BY <1>2, <1>3, <2>2
  <2> QED
    BY <1>2, <2>1, <2>2
<1>6. (Signed(b) = Signed(a)) <=> b = a
  BY <1>2, <1>3
<1>7. Signed(a) \in Int /\ Signed(b) \in Int
  BY <1>2, <1>3
<1>8. z \in BOOLEAN /\ s \in BOOLEAN /\ o \in BOOLEAN
  OBVIOUS
<1> HIDE DEF z, s, o
<1>9. /\ cond_holds(compute_cc("sub", a, b), "l") <=> s # o
      /\ cond_holds(compute_cc("sub", a, b), "le") <=> s # o \/ z
      /\ cond_holds(compute_cc("sub", a, b), "e") <=> z
      /\ cond_holds(compute_cc("sub", a, b), "ne") <=> ~ z
      /\ cond_holds(compute_cc("sub", a, b), "ge") <=> s = o
      /\ cond_holds(compute_cc("sub", a, b), "g") <=> s = o /\ ~ z
  BY <1>1, <1>8, ConditionsRead
<1> QED
  BY <1>4, <1>5, <1>6, <1>7, <1>9
=============================================================================
