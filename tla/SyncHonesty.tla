------------------------------- MODULE SyncHonesty -------------------------------
(***************************************************************************)
(* What the status SYNCED is worth: whether SAP then holds what the item   *)
(* says, and whether the item says what its clients asked for.             *)
(*                                                                         *)
(* Neither always holds, so the module adds, as history, the entries and   *)
(* edits that may make it fail; DocClaims shows that these do.  Every step *)
(* is a step of Transactions and an update of the history, which no step   *)
(* reads.                                                                  *)
(***************************************************************************)
EXTENDS Transactions, Overlaps

VARIABLES
    fresh,    \* enqueues whose item nobody has written since they read it
    clean,    \* entries that SYNCED can be trusted of
    early,    \* edits that looked at their item before it was SYNCED
    apart,    \* items no two edits were writing at once
    intended  \* what the edits of an item add up to, in the order they write

history == <<fresh, clean, early, apart, intended>>

\* Two edits that have read the row they are going to write back.
Overlapping(i) ==
    \E c, d \in OrderClients :
        c # d /\ \A x \in {c, d} : oreq[x].item = i /\ oreq[x].pc = "save"

Building(c) == sreq[c].pc \in {"active", "commit"}

\* The request whose entry e is, in the step that inserts it.
InsertedBy(c, e) == ~Created(e) /\ Created(e)' /\ sreq'[c] # sreq[c]

\* The client whose edit of the item this step writes: one at most.
Writers(i) ==
    {c \in OrderClients : /\ oreq[c].pc = "save" /\ oreq[c].item = i
                          /\ oreq'[c] # oreq[c] /\ items'[i] # items[i]}

\* An edit that has looked at the item before it was SYNCED writes SYNCED back.
KeptSynced(i) == \E c \in Writers(i) \cap early : oreq[c].status = "SYNCED"

HonestyInit ==
    /\ TxInit
    /\ OverlapInit
    /\ fresh = SyncClients
    /\ clean = Entry
    /\ early = {}
    /\ apart = Item
    /\ intended = [i \in Item |-> items[i].text]

HonestyStep ==
    /\ fresh' = {c \in SyncClients :
                    Building(c)' /\ Building(c) => c \in fresh /\ Writers(sreq[c].item) = {}}
    /\ clean' = {e \in clean : /\ Active(e) => Writers(outbox[e].item) = {}
                               /\ ~KeptSynced(outbox[e].item)
                               /\ \A c \in SyncClients : InsertedBy(c, e) => c \in fresh}
    /\ early' = {c \in OrderClients :
                    /\ oreq'[c].pc \in {"current", "save"}
                    /\ IF oreq[c].pc = "read"
                       THEN items[oreq[c].item].status # "SYNCED" ELSE c \in early}
    /\ apart' = {i \in apart : ~Overlapping(i)}
    /\ intended' = [i \in Item |->
          IF ItemExists(i) /\ i \in apart'
          THEN IF Writers(i) = {} THEN intended[i]
               ELSE Merged(oreq[CHOOSE c \in Writers(i) : TRUE].text, intended[i])
          ELSE items'[i].text]

HonestyNext == TxNext /\ OverlapStep /\ HonestyStep

HonestySpec == HonestyInit /\ [][HonestyNext]_<<txVars, overlaps, history>>
-----------------------------------------------------------------------------
\* An item is SYNCED only with the text SAP took last for it: the promise of the
\* promotion on edit, the payload in the outbox row, retries, cancels, requeues
\* and late answers together.  It is broken in three ways only, each shown by a
\* run of its own: the item was written between the read its XML was built of
\* and the end of the entry (SyncedTextSent), an edit that has looked before the
\* item was SYNCED wrote SYNCED back (EditPromotes), or two enqueues raced
\* (OneActivePerItem).
SyncedIsSent ==
    \A i \in Item \ raced :
        items[i].status = "SYNCED" /\ sap[i] \in clean =>
            items[i].text = outbox[sap[i]].payload

\* An item says what its edits add up to, each changing only the fields it
\* gives, unless two edits wrote it at once: Update writes both columns back,
\* and the syncs write the status of the same row meanwhile.
EditsAddUp == \A i \in apart : items[i].text = intended[i]
=============================================================================
