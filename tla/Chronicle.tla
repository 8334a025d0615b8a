------------------------------ MODULE Chronicle ------------------------------
(* What the World promises whoever reads it: a log that only ever grows by one  *)
(* whole event, which arrives together with the receipts of the command that     *)
(* caused it and, when it revises a room, with that room's receipt.              *)
EXTENDS WorldJournal
VARIABLES log, receipts, rooms
chronicle == <<log, receipts, rooms>>

Begins == log \in Seq([kind : {"installed"}, of : {Generation(g) : g \in 1..Top}, by : {"world"}, rev : {1}])
          /\ receipts = <<>> /\ \A r \in rooms : ~r.revises

\* One event, with all that belongs to it.
Record == /\ log' # <<>>
          /\ LET e == log'[Len(log')] IN
            /\ log' = Append(log, e)
            /\ receipts' = receipts \o ReceiptsOfCommand(e, Len(log) + 1)
            /\ rooms' = IF e.kind = "revised"
                        THEN rooms \cup {RoomReceipt(e.of[2], Len(log) + 1, TRUE)} ELSE rooms

\* Original receipts of rooms installed before there were receipts.
Establish == /\ UNCHANGED <<log, receipts>> /\ rooms \subseteq rooms'
             /\ \A r \in rooms' \ rooms : ~r.revises

Keeps == Begins /\ [][Record \/ Establish]_chronicle
=============================================================================
