------------------------------- MODULE MCPipe -------------------------------
(* Instances of Pipe for TLC.                                               *)
EXTENDS Pipe

CONSTANTS rax, rsp, none, Length

TwoRegs == {rax, rsp}

Ins(icode, ifun, rA, rB, valC) ==
  [icode |-> icode, ifun |-> ifun, rA |-> rA, rB |-> rB, valC |-> valC]

\* Instructions that read, write, load, store, branch, call and fail.
Body == {
  Ins("irmovq", "yes", none, rax, 5),
  Ins("rrmovq", "yes", rax, rsp, 0),
  Ins("rrmovq", "ne",  rsp, rax, 0),
  Ins("opq",    "sub", rsp, rax, 0),
  Ins("opq",    "add", rax, rax, 0),
  Ins("iaddq",  "yes", none, rsp, 7),
  Ins("rmmovq", "yes", rax, rsp, 0),
  Ins("mrmovq", "yes", rax, rsp, 0),
  Ins("mrmovq", "yes", rsp, rax, 1),
  Ins("pushq",  "yes", rax, none, 0),
  Ins("popq",   "yes", rsp, none, 0),
  Ins("jxx",    "ne",  none, none, 4),
  Ins("jxx",    "l",   none, none, 1),
  Ins("call",   "yes", none, none, 3),
  Ins("ret",    "yes", none, none, 0),
  Ins("nop",    "yes", none, none, 0),
  Ins("bad",    "yes", none, none, 0) }

\* Every program sets up its stack, as the programs under y86-code do.
SetStack == Ins("irmovq", "yes", none, rsp, 2)
AllPrograms == {<<SetStack>> \o s : s \in [1 .. Length -> Body]}
Data == [a \in 0 .. DataLen - 1 |-> <<4, 6, 3, 1>>[a + 1]]

\* A load from an absolute address, which has no base register.
AbsoluteLoad == {<<SetStack, Ins("mrmovq", "yes", rax, rsp, 0), i>> :
                   i \in Body \cup {Ins("mrmovq", "yes", rax, none, 0)}}
=============================================================================
