------------------------------ MODULE Interpreter ------------------------------
(***************************************************************************)
(* Runtime::run, execute_function, execute_import and execute_block        *)
(* (src/runtime.cpp:761-1252): one operand stack shared by all calls, and  *)
(* for each call the params and locals of its C++ stack frame.  The        *)
(* recursion of execute_function is the sequence frames, innermost last;   *)
(* the pc of a caller stays on its call until the callee returns.          *)
(*                                                                         *)
(* An operand is an Immediate: a tag and a value.  Arithmetic and memory   *)
(* are not represented: an instruction of DataOps takes its operands and   *)
(* gives any value, or ends the process where the code can (a failed       *)
(* assert is "aborted", undefined behavior is "undefined").  The jumps are *)
(* those of module Instructions.                                           *)
(***************************************************************************)
EXTENDS Validation

CONSTANTS
  Modules,    \* modules that may be run
  Values,     \* values an operand may have; 0 and the constants among them
  MaxDepth,   \* calls the host's stack has room for
  MaxStack    \* operands the host's memory has room for when a jump is taken

ASSUME InterpreterAssumption ==
  /\ 0 \in Values /\ Values \subseteq Nat
  /\ MaxDepth \in Nat \ {0} /\ MaxStack \in Nat

VARIABLES
  module,    \* the WasmFile the Runtime refers to
  stack,     \* the member stack
  frames,    \* the calls of execute_block that have not returned
  globals,   \* the member globals, their values
  status

vars == <<module, stack, frames, globals, status>>

Operand == [t : Tag, v : Values]
Zero(t) == [t |-> t, v |-> 0]

Top == frames[Len(frames)]
Expr == module.codes[Top.fn].expr
Instruction == Expr[Top.pc]
Imm == Instruction.imms[1]
At(ops) == Top.pc <= Len(Expr) /\ Instruction.op \in ops
On(ops) == status = "running" /\ At(ops)

TypeOK ==
  /\ stack \in Seq(Operand)
  /\ \A k \in DOMAIN frames :
       LET r == frames[k] IN
       /\ r.fn \in DOMAIN module.codes
       /\ r.pc \in 1..(Len(module.codes[r.fn].expr) + 1)
       /\ r.params \in Seq(Operand) /\ Len(r.params) = Len(ParamsOf(module, r.fn))
       /\ r.locals \in Seq(Operand) /\ Len(r.locals) = Len(module.codes[r.fn].locals)
  /\ globals \in Seq(Operand) /\ Len(globals) = Len(module.globals)
  /\ status \in {"ready", "running", "finished", "aborted", "undefined", "exhausted"}
  /\ status = "running" => frames # <<>>

(* The constructor has initialized the globals.                            *)
Init ==
  /\ module \in Modules
  /\ stack = <<>>
  /\ frames = <<>>
  /\ globals = [g \in DOMAIN module.globals |-> Zero(module.globals[g].t)]
  /\ status = "ready"

-----------------------------------------------------------------------------
Stop(how) == status' = how /\ UNCHANGED <<module, stack, frames, globals>>

Goto(p) == frames' = [frames EXCEPT ![Len(frames)].pc = p]
Step(st) ==
  /\ stack' = st /\ Goto(Top.pc + 1)
  /\ UNCHANGED <<module, globals, status>>

(* The stack without its n topmost operands; the k-th from the top.        *)
Below(n) == SubSeq(stack, 1, Len(stack) - n)
Popped(k) == stack[Len(stack) + 1 - k]

(* pop_stack asserts that there is an operand.                             *)
Underflow(n) == Len(stack) < n /\ Stop("aborted")

(* The function returns: its caller steps over the call, or run is over.   *)
Resume(st, callers) ==
  /\ stack' = st
  /\ IF callers = <<>>
     THEN frames' = <<>> /\ status' = "finished"
     ELSE /\ frames' = [callers EXCEPT ![Len(callers)].pc = @ + 1]
          /\ status' = "running"
  /\ UNCHANGED <<module, globals>>

(* fd_write takes four operands, prints from memory, writes a count to     *)
(* memory, and pushes the error code 0.  Its memory accesses are partly    *)
(* checked.                                                                *)
RunImport(st) ==
  \/ /\ Len(st) >= 4
     /\ Resume(Append(SubSeq(st, 1, Len(st) - 4), Zero("I32")), frames)
  \/ Stop("aborted")
  \/ Len(st) >= 4 /\ Stop("undefined")

\* Mistake: the operand popped first becomes the first parameter.
ReversedArguments(st, n) == Reverse(SubSeq(st, Len(st) - n + 1, Len(st)))

(* The operands popped into params: the last one pushed is the last param. *)
Arguments(st, n) == SubSeq(st, Len(st) - n + 1, Len(st))

FreshLocals(f) == [j \in DOMAIN module.codes[f].locals |-> Zero(module.codes[f].locals[j])]

(* execute_function for index x on the stack st.  Nothing bounds the depth *)
(* of the recursion but the host's stack.                                  *)
Enter(x, st) ==
  LET f == x - module.imports + 1
      n == Len(ParamsOf(module, f))
  IN
  \/ x < module.imports /\ RunImport(st)
  \/ x >= module.imports /\ f > Len(module.codes) /\ Stop("undefined")
  \/ /\ f \in DOMAIN module.codes
     /\ Len(frames) = MaxDepth
     /\ Stop("exhausted")
  \/ /\ f \in DOMAIN module.codes
     /\ Len(frames) < MaxDepth
     /\ Len(st) < n \/ module.codes[f].expr = <<>>
     /\ Stop("aborted")
  \/ /\ f \in DOMAIN module.codes
     /\ Len(frames) < MaxDepth
     /\ Len(st) >= n /\ module.codes[f].expr # <<>>
     /\ stack' = SubSeq(st, 1, Len(st) - n)
     /\ frames' = Append(frames, [fn |-> f, pc |-> 1, params |-> Arguments(st, n),
                                  locals |-> FreshLocals(f)])
     /\ status' = "running"
     /\ UNCHANGED <<module, globals>>

(* run(): the export named by the caller, or an assert when there is none. *)
Run == status = "ready" /\ (Enter(module.main, stack) \/ Stop("aborted"))

Call == On({"Call"}) /\ Enter(Imm, stack)

(* The type index of the instruction is not looked at.                     *)
CallIndirect ==
  /\ On({"CallIndirect"})
  /\ \/ Underflow(1)
     \/ /\ Len(stack) >= 1
        /\ Popped(1).v >= Len(module.table)
        /\ Stop("aborted")
     \/ /\ Len(stack) >= 1
        /\ Popped(1).v < Len(module.table)
        /\ Enter(module.table[Popped(1).v + 1], Below(1))

(* Leaving execute_block, by a return or at the end of the list, leaves    *)
(* the operand stack as it is.                                             *)
Return ==
  /\ status = "running"
  /\ Top.pc > Len(Expr) \/ On({"Return"})
  /\ Resume(stack, SubSeq(frames, 1, Len(frames) - 1))

-----------------------------------------------------------------------------
(* Instructions on operands.                                               *)

Const == /\ On({"I32Const", "F64Const"})
         /\ Step(Append(stack, [t |-> IF Instruction.op = "I32Const" THEN "I32" ELSE "F64",
                                v |-> Imm]))

\* Mistake: an operation keeps the tag of the operand it starts from.
OperandTag(op) == IF op = "F64Convert" THEN "I32" ELSE Effects[op].gives[1]

(* The tag of a result.  The comparisons of the 64-bit types leave the     *)
(* 64-bit tag on a result that wasm types i32.                             *)
ResultTag(op) == IF op = "F64Eq" THEN "F64" ELSE Effects[op].gives[1]

(* Numeric operations, conversions, loads, stores and the bulk memory      *)
(* instructions, which pop without looking at tags.                        *)
Compute ==
  /\ On(DataOps \ {"I32Const", "F64Const", "I32Reinterp"})
  /\ LET e == Effects[Instruction.op]  n == Len(e.takes) IN
     \/ Underflow(n)
     \/ Len(stack) >= n /\ e.gives = <<>> /\ Step(Below(n))
     \/ /\ Len(stack) >= n /\ e.gives # <<>>
        /\ \E v \in Values : Step(Append(Below(n), [t |-> ResultTag(Instruction.op), v |-> v]))

(* Division by 0, or an access the memory does not have: it shows once the *)
(* operands are popped.                                                    *)
ComputeTraps ==
  /\ On({"I32Add", "I32Load", "F64Store", "MemoryFill"})
  /\ Len(stack) >= Len(Effects[Instruction.op].takes)
  /\ Stop("aborted") \/ Stop("undefined")

(* A reinterpretation of the bits, here between the 32-bit types, asserts  *)
(* that the operand carries the tag wasm's validation gives it.            *)
Reinterp ==
  /\ On({"I32Reinterp"})
  /\ \/ Underflow(1)
     \/ Len(stack) >= 1 /\ Popped(1).t # "I32" /\ Stop("aborted")
     \/ Len(stack) >= 1 /\ Popped(1).t = "I32" /\ Step(stack)

Drop ==
  /\ On({"Drop"})
  /\ \/ Underflow(1)
     \/ Len(stack) >= 1 /\ Step(Below(1))

Select ==
  /\ On({"Select"})
  /\ \/ Underflow(3)
     \/ /\ Len(stack) >= 3
        /\ Step(Append(Below(3), IF Popped(1).v # 0 THEN Popped(3) ELSE Popped(2)))

\* Mistake: a "continue" leaves out the pc++ behind an End.
ContinueOnEnd ==
  \/ On({"Nop"}) /\ Step(stack)
  \/ On({"End"}) /\ UNCHANGED vars

Skip1 == On({"Nop", "End"}) /\ Step(stack)

-----------------------------------------------------------------------------
(* Variables.  The params come first in the index space, then the locals.  *)

\* Mistake: the index is compared with the number of locals as it is.
WholeIndexChecked(r, x) == x < Len(r.params) \/ x < Len(r.locals)
HasVar(r, x) == x < Len(r.params) \/ x - Len(r.params) < Len(r.locals)

VarIn(r, x) == (r.params \o r.locals)[x + 1]
SetVar(r, x, val) ==
  IF x < Len(r.params) THEN [r EXCEPT !.params[x + 1] = val]
  ELSE [r EXCEPT !.locals[x - Len(r.params) + 1] = val]

LocalGet ==
  /\ On({"LocalGet"})
  /\ \/ HasVar(Top, Imm) /\ Step(Append(stack, VarIn(Top, Imm)))
     \/ ~HasVar(Top, Imm) /\ Stop("aborted")

AssignTop(st) ==
  /\ stack' = st
  /\ frames' = [frames EXCEPT ![Len(frames)] = [SetVar(Top, Imm, Popped(1)) EXCEPT !.pc = @ + 1]]
  /\ UNCHANGED <<module, globals, status>>

LocalSet ==
  /\ On({"LocalSet"})
  /\ \/ Underflow(1)
     \/ Len(stack) >= 1 /\ ~HasVar(Top, Imm) /\ Stop("aborted")
     \/ Len(stack) >= 1 /\ HasVar(Top, Imm) /\ AssignTop(Below(1))

\* Mistake: the operand is not pushed back.
TeeLikeSet ==
  /\ On({"LocalTee"})
  /\ \/ Underflow(1)
     \/ Len(stack) >= 1 /\ HasVar(Top, Imm) /\ AssignTop(Below(1))

LocalTee ==
  /\ On({"LocalTee"})
  /\ \/ Underflow(1)
     \/ Len(stack) >= 1 /\ ~HasVar(Top, Imm) /\ Stop("aborted")
     \/ Len(stack) >= 1 /\ HasVar(Top, Imm) /\ AssignTop(stack)

GlobalGet ==
  /\ On({"GlobalGet"})
  /\ \/ Imm < Len(globals) /\ Step(Append(stack, globals[Imm + 1]))
     \/ Imm >= Len(globals) /\ Stop("aborted")

(* Like the reinterpretations, this compares the tag of the operand.       *)
Settable(x, val) == x < Len(globals) /\ module.globals[x + 1].mut /\ globals[x + 1].t = val.t

GlobalSet ==
  /\ On({"GlobalSet"})
  /\ \/ Underflow(1)
     \/ Len(stack) >= 1 /\ ~Settable(Imm, Popped(1)) /\ Stop("aborted")
     \/ /\ Len(stack) >= 1 /\ Settable(Imm, Popped(1))
        /\ stack' = Below(1) /\ Goto(Top.pc + 1)
        /\ globals' = [globals EXCEPT ![Imm + 1] = Popped(1)]
        /\ UNCHANGED <<module, status>>

-----------------------------------------------------------------------------
(* Control.                                                                *)

JumpTo(p, st) ==
  /\ stack' = st /\ Goto(p)
  /\ UNCHANGED <<module, globals, status>>

SkipWith(st) ==
  \/ SkipDefined(Expr, Top.pc) /\ JumpTo(SkipTarget(Expr, Top.pc), st)
  \/ ~SkipDefined(Expr, Top.pc) /\ Stop("undefined")

(* Operands the branch does not carry stay on the stack: a loop whose      *)
(* branch leaves some behind grows the vector until memory is exhausted.   *)
BranchWith(k, st) ==
  \/ /\ BranchDefined(Expr, Top.pc, k) /\ Len(st) <= MaxStack
     /\ JumpTo(BranchTarget(Expr, Top.pc, k), st)
  \/ /\ BranchDefined(Expr, Top.pc, k) /\ Len(st) > MaxStack
     /\ Stop("exhausted")
  \/ ~BranchDefined(Expr, Top.pc, k) /\ Stop("undefined")

If ==
  /\ On({"If"})
  /\ \/ Underflow(1)
     \/ Len(stack) >= 1 /\ Popped(1).v # 0 /\ Step(Below(1))
     \/ Len(stack) >= 1 /\ Popped(1).v = 0 /\ SkipWith(Below(1))

Else == On({"Else"}) /\ SkipWith(stack)

(* A loop that yields an operand is not supported, nor is a block that     *)
(* yields one of another type than i32; an if may yield any.               *)
Supported(i) ==
  \/ i.op = "Loop" /\ i.imms = <<>>
  \/ i.op = "Block" /\ i.imms \in {<<>>, <<1>>}

Label ==
  /\ On(LabelOps)
  /\ \/ Supported(Instruction) /\ Step(stack)
     \/ ~Supported(Instruction) /\ Stop("aborted")

Br == On({"Br"}) /\ BranchWith(Imm, stack)

BrIf ==
  /\ On({"BrIf"})
  /\ \/ Underflow(1)
     \/ Len(stack) >= 1 /\ Popped(1).v = 0 /\ Step(Below(1))
     \/ Len(stack) >= 1 /\ Popped(1).v # 0 /\ BranchWith(Imm, Below(1))

BrTable ==
  /\ On({"BrTable"})
  /\ \/ Underflow(1)
     \/ Len(stack) >= 1 /\ Popped(1).v >= Len(Instruction.imms) /\ Stop("aborted")
     \/ /\ Len(stack) >= 1 /\ Popped(1).v < Len(Instruction.imms)
        /\ BranchWith(Instruction.imms[Popped(1).v + 1], Below(1))

Unreachable == On({"Unreachable"}) /\ Stop("aborted")

Next ==
  \/ Run \/ Call \/ CallIndirect \/ Return
  \/ Const \/ Compute \/ ComputeTraps \/ Reinterp \/ Drop \/ Select \/ Skip1
  \/ LocalGet \/ LocalSet \/ LocalTee \/ GlobalGet \/ GlobalSet
  \/ If \/ Else \/ Label \/ Br \/ BrIf \/ BrTable \/ Unreachable

(* One thread runs the interpreter: while it can step, it steps.           *)
Spec == Init /\ [][Next]_vars /\ WF_vars(Next)
-----------------------------------------------------------------------------
(* What validation says of a state.                                        *)

Tags(ops) == [k \in DOMAIN ops |-> ops[k].t]

(* The part of the stack that call k owns: the innermost call what its     *)
(* position has, a call that waits for a callee what is left below the     *)
(* arguments.                                                              *)
OwnTypes(k) ==
  LET f == frames[k].fn  p == frames[k].pc  T == TypesIn(module, f)[p]
      taken == Len(EffectOf(module, f, module.codes[f].expr[p], T).takes)
  IN  IF k = Len(frames) THEN T ELSE SubSeq(T, 1, Len(T) - taken)

TypesOfCalls(n) == FlattenSeq([k \in 1..n |-> OwnTypes(k)])

(* No operand is left behind by a jump, and no comparison of the 64-bit    *)
(* types is used.                                                          *)
Clean(m) == ~Uses(m, {"F64Eq"}) /\ \A f \in DOMAIN m.codes : LeavesNothing(m, f)

(* Functions call only functions with a higher index, and have no loop.    *)
Descending(m) ==
  ~Uses(m, {"Loop"}) /\
  \A f \in DOMAIN m.codes : \A p \in DOMAIN m.codes[f].expr :
    LET i == m.codes[f].expr[p] IN
    /\ i.op = "Call" => i.imms[1] < m.imports \/ i.imms[1] >= m.imports + f
    /\ i.op = "CallIndirect" =>
         \A s \in DOMAIN m.table : m.table[s] < m.imports \/ m.table[s] >= m.imports + f

(* The modules the properties are about: what validation accepts, without  *)
(* the jumps that an if gets in the way of, and constants among Values.    *)
Runnable(m) ==
  /\ ValidModule(m)
  /\ \A f \in DOMAIN m.codes :
       /\ Benign(m.codes[f].expr)
       /\ \A p \in DOMAIN m.codes[f].expr :
            m.codes[f].expr[p].op \in {"I32Const", "F64Const"} =>
              m.codes[f].expr[p].imms[1] \in Values

-----------------------------------------------------------------------------
(* Properties of the valid modules whose jumps land where they should.     *)

(* Although branches and returns do not unwind the stack, it is never      *)
(* lower than validation says: what they forget only adds to it.           *)
CoversValidated ==
  status = "running" => Len(stack) >= Len(TypesOfCalls(Len(frames)))

(* The state has its types, and the stack is high enough for them.         *)
StackInv == TypeOK /\ CoversValidated

(* On clean modules the stack has the validated types, those of all the    *)
(* waiting callers included, and when run is over it holds the results of  *)
(* the export.                                                             *)
StackAsValidated ==
  Clean(module) =>
    /\ status = "running" => Tags(stack) = TypesOfCalls(Len(frames))
    /\ status = "finished" => Tags(stack) = TypeOfFunction(module, module.main).results

(* On clean modules params and locals keep their declared types: arguments *)
(* arrive in order and indices reach the variable they mean.               *)
VarsAsValidated ==
  Clean(module) =>
    \A k \in DOMAIN frames :
      Tags(frames[k].params \o frames[k].locals) = VarsOf(module, frames[k].fn)

(* Where the process may end by an assert: at a trap, or where the code is *)
(* not finished: a block type (src/runtime.cpp:1097, 1101), a br_table     *)
(* index past the default (1131), a call of an empty body (765) or of an   *)
(* import (1165-1188).                                                     *)
Names(x) ==
  \/ At({"Call"}) /\ x = Imm
  \/ /\ At({"CallIndirect"})
     /\ Popped(1).v < Len(module.table) /\ x = module.table[Popped(1).v + 1]

TrapOrTodo ==
  \/ At({"Unreachable", "I32Add", "I32Load", "F64Store", "MemoryFill"})
  \/ At(LabelOps) /\ ~Supported(Instruction)
  \/ At({"BrTable"}) /\ Popped(1).v >= Len(Instruction.imms)
  \/ At({"CallIndirect"}) /\ Popped(1).v >= Len(module.table)
  \/ \E x \in 0..(module.imports + Len(module.codes) - 1) :
       /\ Names(x)
       /\ x < module.imports \/ module.codes[x - module.imports + 1].expr = <<>>

TakesItsOperands ==
  Len(stack) >= Len(EffectOf(module, Top.fn, Instruction, TypesIn(module, Top.fn)[Top.pc]).takes)

(* In a function, run aborts only where a trap or unfinished code makes    *)
(* it, never because pop_stack finds no operand or an index has no         *)
(* variable; a tag is found wrong only in a module that is not clean.      *)
(* (Before the first function it aborts when the export or an argument is  *)
(* missing.)                                                               *)
AbortsOnlyOnTraps ==
  status = "aborted" /\ frames # <<>> =>
    /\ \/ TrapOrTodo
       \/ ~Clean(module) /\ At({"GlobalSet", "I32Reinterp"})
    /\ TakesItsOperands

(* A call never touches the operands its callers hold below its arguments. *)
CalleeKeepsCallerOperands ==
  [][frames # <<>> =>
       LET held == Len(TypesOfCalls(Len(frames) - 1))
       IN  /\ Len(stack') >= held
           /\ SubSeq(stack', 1, held) = SubSeq(stack, 1, held)]_vars

(* Without loops and recursion, run comes to an end.                       *)
RunEnds == Descending(module) ~> status \notin {"ready", "running"}
=============================================================================
