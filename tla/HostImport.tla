------------------------------- MODULE HostImport -------------------------------
(***************************************************************************)
(* The one import winterp has, fd_write (src/runtime.cpp:1158-1191), called*)
(* by a module on the memory its data segments have made: the composition  *)
(* of the constructor and execute_import.  The vectors to write lie in     *)
(* memory, each an address and a length.  One iteration of the loop is one *)
(* step.  A number in memory is Word bytes, the lowest first, with values  *)
(* below Byte.                                                             *)
(***************************************************************************)
EXTENDS Instantiation, Arithmetic

CONSTANTS
  Byte, Word,
  Callers,    \* the modules that import fd_write and call it
  Calls,      \* operands: fd, iovs_ptr, iovs_len and nwritten
  MaxCalls    \* calls that are followed

ASSUME HostAssumption ==
  /\ Byte \in Nat \ 0..1 /\ Word \in Nat \ {0} /\ Power(Byte, Word) = Space
  /\ \A m \in Modules : \A s \in Range(m.data) : s.bytes \in Seq(0..(Byte - 1))
  /\ Callers \subseteq Modules
  /\ Calls \subseteq [fd : Nat, iovs : 0..(Space - 1), len : 0..(Space - 1), nwritten : 0..(Space - 1)]

VARIABLES
  call,      \* the operands of the latest call
  calls,     \* how many calls there were
  at,         \* the loop's counter i
  written,
  out        \* what this call has written: streams and their bytes

hostvars == <<call, calls, at, written, out>>
NoCall   == [fd |-> 0, iovs |-> 0, len |-> 0, nwritten |-> 0]

HostInit ==
  /\ Init
  /\ call = NoCall /\ calls = 0 /\ at = 0 /\ written = 0 /\ out = << >>

Plus(a, b) == (a + b) % Space

(* The asserts of read_memory and write_memory, and what they are for.     *)
\* Mistake: read_memory is as strict as write_memory.
ReadAllowedBefore(a) == Plus(a, Word) < Len(memory)
ReadAllowed(a)  == Plus(a, Word) <= Len(memory)
WriteAllowed(a) == Plus(a, Word) < Len(memory)
Within(a, w)    == a + w <= Len(memory)

(* The ends of a vector's bytes are both taken as subscripts: with the     *)
(* bytes up to the end of memory, memory[memory.size()] is undefined.      *)
Subscripts(base, len) == base + len < Len(memory)

WordAt(mem, a) == SumOf([b \in 1..Word |-> mem[a + b] * Power(Byte, b - 1)])

Poke(a, v) ==
  [p \in DOMAIN memory |-> IF p - a \in 1..Word THEN (v \div Power(Byte, p - a - 1)) % Byte ELSE memory[p]]

(* Where vector m has its address and its length.                          *)
BaseAt(m) == Plus(call.iovs, 2 * Word * m)
LenAt(m)  == Plus(BaseAt(m), Word)

Newline == -1   \* not a byte of memory: std::endl

Stream(fd) == IF fd = 1 THEN "stdout" ELSE "stderr"

Chunk(m) ==
  LET base == WordAt(memory, BaseAt(m))
      len  == WordAt(memory, LenAt(m))
  IN  [to |-> Stream(call.fd), bytes |-> SubSeq(memory, base + 1, base + len) \o <<Newline>>]

(* The caller has taken the result of the call before.                     *)
CallImport ==
  /\ status \in {"constructed", "returned"} /\ wasm \in Callers /\ calls < MaxCalls
  /\ call' \in Calls /\ calls' = calls + 1
  /\ status' = "calling" /\ stack' = << >>
  /\ at' = 0 /\ written' = 0 /\ out' = << >>
  /\ UNCHANGED <<wasm, memory, function_table, globals, list, i, pc, offset, j>>

EndCall(how) == Fail(how) /\ UNCHANGED hostvars

\* Mistake: only the last vector is counted.
Counted(len) == len
Total(len) == Plus(written, len)

(* The two numbers are read with a check, the bytes without one.           *)
WriteChunk ==
  /\ status = "calling" /\ at < call.len
  /\ \/ ~ReadAllowed(BaseAt(at)) /\ EndCall("aborted")
     \/ ReadAllowed(BaseAt(at)) /\ ~Within(BaseAt(at), Word) /\ EndCall("undefined")
     \/ /\ ReadAllowed(BaseAt(at)) /\ Within(BaseAt(at), Word)
        /\ IF ~ReadAllowed(LenAt(at)) THEN EndCall("aborted")
           ELSE IF ~Within(LenAt(at), Word) THEN EndCall("undefined")
           ELSE LET len == WordAt(memory, LenAt(at))
                IN  IF ~Subscripts(WordAt(memory, BaseAt(at)), len) THEN EndCall("undefined")
                    ELSE /\ out' = Append(out, Chunk(at))
                         /\ written' = Total(len) /\ at' = at + 1
                         /\ UNCHANGED <<vars, call, calls>>

(* The count is stored and success returned, whatever has been written.    *)
ReturnSuccess ==
  /\ status = "calling" /\ at = call.len
  /\ IF ~WriteAllowed(call.nwritten) THEN EndCall("aborted")
     ELSE IF ~Within(call.nwritten, Word) THEN EndCall("undefined")
     ELSE /\ memory' = Poke(call.nwritten, written)
          /\ stack' = Append(stack, [t |-> "I32", v |-> 0])
          /\ status' = "returned"
          /\ UNCHANGED <<wasm, function_table, globals, list, i, pc, offset, j, hostvars>>

HostNext == (Next /\ UNCHANGED hostvars) \/ CallImport \/ WriteChunk \/ ReturnSuccess

HostSpec == HostInit /\ [][HostNext]_<<vars, hostvars>> /\ WF_<<vars, hostvars>>(HostNext)

-----------------------------------------------------------------------------
(* Properties.                                                             *)

HostTypeOK ==
  /\ memory \in Seq(0..(Byte - 1)) /\ Len(memory) = PageSize
  /\ at \in 0..call.len /\ written \in 0..(Space - 1)
  /\ Len(out) = at

(* A vector lies in memory, and so do the bytes it names, of which none is *)
(* the last one of memory: the code asks for an address behind them.       *)
VectorAt(m) == call.iovs + 2 * Word * m

Fits(m) ==
  /\ VectorAt(m) + 2 * Word <= Len(memory)
  /\ WordAt(memory, VectorAt(m)) + WordAt(memory, VectorAt(m) + Word) < Len(memory)

VectorsFit == \A m \in 0..(call.len - 1) : Fits(m)

(* A call whose vectors lie in memory, with bytes that end before the last *)
(* one of memory, is not stopped by them.                                  *)
FittingVectorsAreWritten ==
  calls > 0 /\ VectorsFit /\ at < call.len => status \notin {"aborted", "undefined"}

(* The state has its types, and fitting vectors are written.               *)
HostInv == HostTypeOK /\ FittingVectorsAreWritten

(* What the code should write of vector m.                                 *)
Text(m) ==
  LET base == WordAt(memory, VectorAt(m))
      len  == WordAt(memory, VectorAt(m) + Word)
  IN  [to |-> Stream(call.fd), bytes |-> SubSeq(memory, base + 1, base + len) \o <<Newline>>]

(* When a call returns, all vectors have been written, in order and each   *)
(* with a newline behind it, and the caller finds the number of their      *)
(* bytes, not counting newlines, where it asked for it; nothing else in    *)
(* memory has changed since the call.                                      *)
ReportsWhatItWrote ==
  [][status = "calling" /\ (memory' # memory \/ status' = "returned") =>
       /\ VectorsFit
       /\ out = [m \in 1..call.len |-> Text(m - 1)]
       /\ WordAt(memory', call.nwritten) = SumOf([m \in 1..call.len |-> Len(out[m].bytes) - 1]) % Space
       /\ \A p \in DOMAIN memory : p - call.nwritten \notin 1..Word => memory'[p] = memory[p]
    ]_<<vars, hostvars>>
=============================================================================
