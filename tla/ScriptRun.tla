----------------------------- MODULE ScriptRun -----------------------------
(***************************************************************************)
(* One execution of the script tool: the calls a Lua script makes of the   *)
(* host, the limits they share, the hook between its instructions, and     *)
(* what is left of its output.                                             *)
(*                                                                         *)
(* The script is external: it calls what it likes, and what a call raises  *)
(* it may catch with pcall or die of.  Any step of a call may fail.  A     *)
(* script runs alone in its interpreter, so a call is one step.  Sizes are *)
(* small numbers; reads, JSON and paths keep no state and are left out.    *)
(***************************************************************************)
EXTENDS Integers, Sequences, SequencesExt

CONSTANTS
  Sizes,        \* of what is written or downloaded
  Lines,        \* lengths of printed lines
  MaxBytes, MaxFiles, MaxRequests,
  MaxBody,      \* max_download_bytes and max_response_bytes
  MaxIntervals, \* max_instructions, in intervals of the hook
  MaxOutput,
  ToolLimit,    \* MAX_TOOL_OUTPUT_LENGTH
  MaxCalls      \* calls and hooks of one run

ScriptAssumption ==
  /\ Sizes \subseteq Nat /\ Lines \subseteq Nat
  /\ {MaxBytes, MaxFiles, MaxRequests, MaxBody, MaxIntervals, MaxOutput, ToolLimit, MaxCalls} \subseteq Nat

Safe == {"FS_READ", "FS_WRITE", "FS_DELETE", "FS_MKDIR", "JSON", "ENV_READ"}
Trusted == Safe \union {"HTTP", "HTTP_PRIVATE_NET", "BUILTIN_MODULES"}
Dangerous == Trusted \union {"ALL_STD_LIBS"}

VARIABLES
  caps,      \* the profile's capabilities
  state,     \* "runs", "done", "failed"
  quota,     \* shared_write_bytes, shared_write_files
  requests,  \* request_counter
  intervals, \* instruction_counter
  late,      \* is the timeout over?
  output,    \* the lines in the buffer
  size,      \* its length, line ends included
  cut,       \* output_truncated
  calls,
  caught, wrote, made, sent, printed  \* history: what the script and its calls did

counters == <<quota, requests, intervals>>
buffer == <<output, size>>
history == <<wrote, made, sent, printed>>
vars == <<caps, state, counters, late, buffer, cut, calls, caught, history>>

TypeOK ==
  /\ caps \in {Safe, Trusted, Dangerous} /\ state \in {"runs", "done", "failed"}
  /\ quota \in [bytes : Nat, files : Nat]
  /\ {requests, intervals, calls} \subseteq 0 .. MaxCalls
  /\ {late, cut, caught} \subseteq BOOLEAN
  /\ size \in Nat
  /\ ToSet(output) \union ToSet(printed) \subseteq Lines

Init ==
  /\ caps \in {Safe, Trusted, Dangerous} /\ state = "runs"
  /\ quota = [bytes |-> 0, files |-> 0] /\ requests = 0 /\ intervals = 0
  /\ late = FALSE /\ output = <<>> /\ size = 0 /\ cut = FALSE
  /\ calls = 0 /\ caught = FALSE /\ wrote = 0 /\ made = 0 /\ sent = 0 /\ printed = <<>>

-----------------------------------------------------------------------------
(* Calls                                                                   *)

\* An API that is not injected is nil: calling it raises an error too.
Call(needs) ==
  /\ state = "runs" /\ calls < MaxCalls /\ needs \subseteq caps
  /\ calls' = calls + 1

Returns == UNCHANGED <<state, caught>>
Raises ==
  \/ caught' = TRUE /\ UNCHANGED state
  \/ state' = "failed" /\ UNCHANGED caught

\* reserve_write_quota: the bytes first, then the file.
Reserve(n) ==
  LET taken == [bytes |-> quota.bytes + n, files |-> quota.files + 1]
  IN  IF taken.bytes > MaxBytes THEN [fits |-> FALSE, left |-> [quota EXCEPT !.bytes = taken.bytes - n]]
      ELSE IF taken.files > MaxFiles
      THEN [fits |-> FALSE, left |-> [bytes |-> taken.bytes - n, files |-> taken.files - 1]]
      ELSE [fits |-> TRUE, left |-> taken]

Release(q, n) == [bytes |-> q.bytes - n, files |-> q.files - 1]

Written(n) == wrote' = wrote + n /\ made' = made + 1 /\ Returns
NotWritten == UNCHANGED <<wrote, made>> /\ Raises

\* Any step after the reservation may fail; it gives back the whole of it.
Metered(n) ==
  LET reserved == Reserve(n) IN
  \/ ~reserved.fits /\ quota' = reserved.left /\ NotWritten
  \/ reserved.fits /\ quota' = Release(reserved.left, n) /\ NotWritten
  \/ reserved.fits /\ quota' = reserved.left /\ Written(n)

Rejected == NotWritten /\ UNCHANGED quota
Rest == UNCHANGED <<caps, requests, intervals, late, buffer, cut, sent, printed>>

WriteFile(n) == Call({"FS_WRITE"}) /\ (Rejected \/ Metered(n)) /\ Rest
AppendFile(n) == Call({"FS_WRITE"}) /\ (Rejected \/ Metered(n)) /\ Rest
WriteJson(n) == Call({"FS_WRITE", "JSON"}) /\ (Rejected \/ Metered(n)) /\ Rest

\* copy reserves what the source's size is said to be.
Copy(n) == Call({"FS_WRITE"}) /\ (Rejected \/ Metered(n)) /\ Rest

\* mkdir, remove, move, tempdir and tempfile are not counted.
Uncounted == Call({}) /\ (Returns \/ Raises) /\ UNCHANGED <<counters, history, caps, late, buffer, cut>>

-----------------------------------------------------------------------------
(* HTTP                                                                    *)

\* What was counted stays counted, if it was sent or not.
Request(n) ==
  /\ Call({"HTTP"})
  /\ \/ Raises /\ UNCHANGED <<requests, sent>>
     \/ /\ requests' = requests + 1
        /\ IF requests' > MaxRequests THEN Raises /\ UNCHANGED sent
           ELSE sent' = sent + 1 /\ (Raises \/ (n <= MaxBody /\ Returns))
  /\ UNCHANGED <<caps, quota, intervals, late, buffer, cut, wrote, made, printed>>

\* The file is counted before the request is sent, the bytes when they are there.
Download(n) ==
  LET file == [quota EXCEPT !.files = @ + 1]
      both == [file EXCEPT !.bytes = @ + n]
      NoFile == quota' = [file EXCEPT !.files = @ - 1] /\ NotWritten
      Neither == quota' = Release(both, n) /\ NotWritten
  IN
  /\ Call({"HTTP", "FS_WRITE"})
  /\ \/ Rejected /\ UNCHANGED <<requests, sent>>
     \/ /\ requests' = requests + 1
        /\ \/ requests' > MaxRequests /\ Rejected /\ UNCHANGED sent
           \/ requests' <= MaxRequests /\ NoFile /\ UNCHANGED sent
           \/ /\ requests' <= MaxRequests /\ file.files <= MaxFiles /\ sent' = sent + 1
              /\ \/ NoFile
                 \/ n <= MaxBody /\ Neither
                 \/ n <= MaxBody /\ both.bytes <= MaxBytes /\ quota' = both /\ Written(n)
  /\ UNCHANGED <<caps, intervals, late, buffer, cut, printed>>

-----------------------------------------------------------------------------
(* execute                                                                 *)

\* Not set with the full standard library.
Hook ==
  /\ Call({}) /\ "ALL_STD_LIBS" \notin caps
  /\ intervals' = intervals + 1
  /\ IF intervals >= MaxIntervals \/ late THEN Raises ELSE Returns
  /\ UNCHANGED <<caps, quota, requests, late, buffer, cut, history>>

TimeOver ==
  /\ state = "runs" /\ ~late
  /\ late' = TRUE
  /\ UNCHANGED <<caps, state, counters, buffer, cut, calls, caught, history>>

\* After the first line that does not fit there are no more.
Echo(length) ==
  /\ Call({})
  /\ printed' = Append(printed, length)
  /\ IF cut THEN UNCHANGED <<buffer, cut>>
     ELSE IF size + length + 1 > MaxOutput THEN cut' = TRUE /\ UNCHANGED buffer
     ELSE output' = Append(output, length) /\ size' = size + length + 1 /\ UNCHANGED cut
  /\ Returns
  /\ UNCHANGED <<caps, counters, late, wrote, made, sent>>

\* A long result is sliced at ToolLimit, which may be inside a character: that
\* panics, outside of the catch_unwind around the script.
Ends ==
  /\ state = "runs"
  /\ state' \in {"done"} \union IF size > ToolLimit THEN {"failed"} ELSE {}
  /\ UNCHANGED <<caps, counters, late, buffer, cut, calls, caught, history>>

Next ==
  \/ Uncounted \/ Hook \/ TimeOver \/ Ends
  \/ \E n \in Sizes :
       WriteFile(n) \/ AppendFile(n) \/ WriteJson(n) \/ Copy(n) \/ Request(n) \/ Download(n)
  \/ \E length \in Lines : Echo(length)

Spec == Init /\ [][Next]_vars

-----------------------------------------------------------------------------
(* Properties                                                              *)

\* Whatever fails at whichever step, and whatever the script makes of it, the
\* quota is what its calls have written, within its limits ("only commit on
\* success", script.rs:541), no more requests leave than may, and none from a
\* safe script.
QuotaIsExact ==
  /\ quota = [bytes |-> wrote, files |-> made]
  /\ wrote <= MaxBytes /\ made <= MaxFiles
  /\ sent <= MaxRequests /\ (caps = Safe => sent = 0)

\* The output is what was printed up to the first line that did not fit; and a
\* script that catches nothing does not outlive its instructions.
OutputIsPrefix ==
  /\ IsPrefix(output, printed) /\ size <= MaxOutput
  /\ (output = printed \/ cut)
  /\ (state = "runs" /\ ~caught => intervals <= MaxIntervals)

=============================================================================
