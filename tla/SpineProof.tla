----------------------------- MODULE SpineProof -----------------------------
(* Verified ancestry of the Spine (src/src/spine/verified-index.js): a proof is *)
(* built by scanning every session's ledger, and a retained proof is accepted   *)
(* again from the hash of the prefix it covered and a scan of what was appended.*)
(*                                                                              *)
(* `ledgers` is what the disk holds: a function from the sessions that have a   *)
(* ledger file to its lines.  A line is whole when it parses, ends in a newline *)
(* and chains to the line before.  Equal prefixes stand for equal hashes.       *)
EXTENDS Naturals, Sequences
CONSTANTS Request, NoCode,
          Refused   \* in place of what a verifier throws on
S == INSTANCE Spine WITH file <- <<>>, held <- <<>>

\* The lifecycle copyLifecycle() carries: what each request of a ledger has.
Lifecycle == [Request -> [prepared : BOOLEAN, dispatched : BOOLEAN, raw : BOOLEAN,
                          code : S!Code \cup {NoCode}]]
Fresh == [r \in Request |-> [prepared |-> FALSE, dispatched |-> FALSE, raw |-> FALSE, code |-> NoCode]]

\* applyLifecycle(): may the frame come next, and what it changes.
Follows(life, f) ==
  LET it == life[f.req] IN
  CASE f.kind = "prepared"   -> ~it.prepared
    [] f.kind = "dispatched" -> it.prepared /\ ~it.dispatched
    [] f.kind = "raw"        -> it.dispatched /\ ~it.raw /\ it.code = NoCode
    [] f.kind = "outcome"    -> it.dispatched /\ it.code = NoCode
                                /\ (f.code \notin S!NetworkCode => it.raw)

Applied(life, f) ==
  [life EXCEPT ![f.req] =
    CASE f.kind = "prepared"   -> [@ EXCEPT !.prepared = TRUE]
      [] f.kind = "dispatched" -> [@ EXCEPT !.dispatched = TRUE]
      [] f.kind = "raw"        -> [@ EXCEPT !.raw = TRUE]
      [] f.kind = "outcome"    -> [@ EXCEPT !.code = f.code]]

\* scanLedger(): the lines one after another, from a lifecycle already known.
Scan(life, lines) ==
  LET upTo[i \in 0..Len(lines)] ==
        IF i = 0 THEN life
        ELSE LET before == upTo[i - 1] IN
             IF before = Refused \/ ~lines[i].whole THEN Refused
             ELSE IF Follows(before, lines[i].frame) THEN Applied(before, lines[i].frame) ELSE Refused
  IN  upTo[Len(lines)]

\* createSpineVerifiedProof(): every ledger from its first line.  One refused
\* ledger refuses them all.
Sealed(lives) == IF Refused \in {lives[s] : s \in DOMAIN lives} THEN Refused ELSE lives
FullProof(ledgers) == Sealed([s \in DOMAIN ledgers |-> Scan(Fresh, ledgers[s])])

\* What a proof keeps of a disk it accepted.
Retained(ledgers, lives) == [prefix |-> ledgers, lives |-> lives]

Suffix(lines, n) == SubSeq(lines, n + 1, Len(lines))

\* Variant: the length of the prefix is compared and not its hash.
KeepsPrefix_LengthOnly(kept, lines) == Len(lines) >= Len(kept)

\* readHash(): the ledger still begins with the bytes the proof covered.
KeepsPrefix(kept, lines) ==
  /\ Len(lines) >= Len(kept)
  /\ SubSeq(lines, 1, Len(kept)) = kept

\* One retained ledger: its prefix by hash, the rest by a scan.
ScanOn(kept, lines) ==
  IF KeepsPrefix(kept.lines, lines) THEN Scan(kept.life, Suffix(lines, Len(kept.lines))) ELSE Refused

\* validateSpineVerifiedProof(): no retained ledger may be missing; a new one is
\* scanned from its first line.
Revalidated(kept, ledgers) ==
  IF ~(DOMAIN kept.prefix \subseteq DOMAIN ledgers) THEN Refused
  ELSE Sealed([s \in DOMAIN ledgers |->
         IF s \in DOMAIN kept.prefix
         THEN ScanOn([lines |-> kept.prefix[s], life |-> kept.lives[s]], ledgers[s])
         ELSE Scan(Fresh, ledgers[s])])

\* spineForestView(): the lifecycle of each request, as the Forest verifier reads
\* it; sessionOf tells the session of those that were ever prepared.
View(lives, sessionOf) ==
  [r \in Request |-> IF r \in DOMAIN sessionOf /\ sessionOf[r] \in DOMAIN lives
                     THEN lives[sessionOf[r]][r] ELSE Fresh[r]]
=============================================================================
