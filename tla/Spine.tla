------------------------------- MODULE Spine -------------------------------
(* The Spine: an append-only JSONL ledger of provider crossings, one file per   *)
(* session (src/src/spine/store.js).  `file` is what the disk holds, line by    *)
(* line; `held` is the copy a running SpineStore keeps and appends against.     *)
(*                                                                              *)
(* Abstracted: bodies, times and identifiers.  A request is named by the record *)
(* id of its prepared frame; the hash chain is the order of the lines.          *)
EXTENDS Naturals, Sequences, FiniteSets
CONSTANTS Request,  \* record ids of prepared frames
          NoCode
VARIABLES file, held

spineVars == <<file, held>>

FrameKind == {"prepared", "dispatched", "raw", "outcome"}

\* validateOutcome(): the network codes, and the HTTP outcomes by what they mean
\* to the caller: unusable stands for oversized_response, http_error,
\* invalid_response and empty_content.
NetworkCode == {"fetch_failed", "aborted", "interrupted"}
Code == NetworkCode \cup {"unusable", "success"}

Frame == [kind : FrameKind, req : Request, code : Code \cup {NoCode}]

\* A line that ends in a newline holds a frame; a torn one does not parse.
Line == [frame : Frame, whole : BOOLEAN]

FrameOf(kind, r) == [kind |-> kind, req |-> r, code |-> NoCode]
OutcomeFrame(r, code) == [kind |-> "outcome", req |-> r, code |-> code]

\* What a log says of request r
Seen(log, r) == {f \in {log[i] : i \in DOMAIN log} : f.req = r}
Has(log, r, kind) == \E f \in Seen(log, r) : f.kind = kind
CodeIn(log, r) == IF Has(log, r, "outcome")
                  THEN (CHOOSE f \in Seen(log, r) : f.kind = "outcome").code ELSE NoCode

\* applyLifecycle(): each receipt at most once and in its order; an outcome that
\* is not a network error needs the exact return before it.
Lawful(log, f) ==
  IF f.kind = "prepared" THEN Seen(log, f.req) = {}
  ELSE /\ Has(log, f.req, "prepared")
       /\ ~Has(log, f.req, f.kind)
       /\ f.kind # "dispatched" => Has(log, f.req, "dispatched")
       /\ f.kind = "raw" => ~Has(log, f.req, "outcome")
       /\ f.kind = "outcome" /\ f.code \notin NetworkCode => Has(log, f.req, "raw")

LawfulLog(log) == \A i \in DOMAIN log : Lawful(SubSeq(log, 1, i - 1), log[i])

\* readFrames(): every line must parse, chain and obey the lifecycle.
Frames(lines) == [i \in DOMAIN lines |-> lines[i].frame]
Readable(lines) == (\A i \in DOMAIN lines : lines[i].whole) /\ LawfulLog(Frames(lines))

SpineInit == file = <<>> /\ held = <<>>

EndsTorn(lines) == Len(lines) > 0 /\ ~lines[Len(lines)].whole

\* appendFileSync(): text after a line without its newline joins that line.
Written(lines, f) == IF EndsTorn(lines) THEN lines
                     ELSE Append(lines, [frame |-> f, whole |-> TRUE])
Torn(lines, f) == IF EndsTorn(lines) THEN lines
                  ELSE Append(lines, [frame |-> f, whole |-> FALSE])

\* append(): the lifecycle is tried on a copy, then the disk, then the memory.
AppendFrame(f) ==
  /\ Lawful(held, f)
  /\ file' = Written(file, f)
  /\ held' = Append(held, f)

\* Variant: the frame is remembered although the disk refused it.
AppendFails_Remembered(f) ==
  /\ Lawful(held, f)
  /\ file' \in {file, Torn(file, f)}
  /\ held' = Append(held, f)

\* The disk takes none of the frame, or a part of it, and append() throws.
AppendFails(f) ==
  /\ Lawful(held, f)
  /\ file' \in {file, Torn(file, f)}
  /\ UNCHANGED held

\* A new SpineStore reads the file, or refuses to start on it.
Reopen == Readable(file) /\ held' = Frames(file) /\ UNCHANGED file

SpineTypeOK == file \in Seq(Line) /\ held \in Seq(Frame)
=============================================================================
