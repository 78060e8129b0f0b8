--------------------------- MODULE ConfigVersions ---------------------------
(***************************************************************************)
(* The versioned configuration: services/config_service.py over             *)
(* db/repositories/config.py.  Saving a section stores a copy of the        *)
(* configuration in force with that section replaced, as the next version,  *)
(* and makes it the active one; activating goes back to a stored version.   *)
(*                                                                          *)
(* Every request is a transaction of the database at READ COMMITTED: a      *)
(* SELECT sees what is committed when it runs, an UPDATE takes a row lock   *)
(* until the transaction ends, an INSERT fails on a version number another  *)
(* transaction committed in the meantime (the unique index).  The mirror    *)
(* tables of profiles and scheduling rules are written by the same          *)
(* statements and read by nobody; they are part of the row here.            *)
(***************************************************************************)
EXTENDS Naturals, Sequences, FiniteSets

CONSTANTS Sessions,       \* requests that can be under way at once
          Sections,       \* priority_profile, scheduling, replanning, ...
          None,           \* no section: the request is an activation
          MaxVersions,    \* bound on the versions stored
          Overlapping     \* may an activation overlap with other requests?

ASSUME BoundAssumption == MaxVersions \in Nat \ {0} /\ Overlapping \in BOOLEAN
ASSUME NoneAssumption == None \notin Sections

VARIABLES rows,   \* rows[v]: version v as committed
          tx,     \* tx[s]: what the transaction of session s has read and written
          overtaken \* history: saves past which another request has committed, between
                    \* their read of the configuration and their number, or an
                    \* activation at any time

vars == <<rows, tx, overtaken>>

Numbers  == 1 .. MaxVersions
Row      == [active : BOOLEAN, content : [Sections -> Numbers]]
Request  == [pc : {"idle", "number", "list", "update", "commit"},
             section : Sections \cup {None},   \* the section saved
             from : 0 .. MaxVersions,          \* the version it is a copy of
             version : 0 .. MaxVersions,       \* the version stored or activated
             seen : BOOLEAN,                   \* the target's flag as first read
             marks : SUBSET Numbers]           \* the rows to be updated

Idle == [pc |-> "idle", section |-> None, from |-> 0, version |-> 0, seen |-> FALSE,
         marks |-> {}]

TypeOK == /\ rows \in Seq(Row) /\ Len(rows) \in Numbers
          /\ tx \in [Sessions -> Request]
          /\ overtaken \subseteq Sessions

Init == /\ rows = <<[active |-> TRUE, content |-> [k \in Sections |-> 1]]>>
        /\ tx = [s \in Sessions |-> Idle]
        /\ overtaken = {}

-----------------------------------------------------------------------------
Versions  == 1 .. Len(rows)
Active    == {v \in Versions : rows[v].active}
Latest(vs) == CHOOSE v \in vs : \A w \in vs : w <= v

\* _active_row: ORDER BY version DESC LIMIT 1
ActiveVersion == Latest(Active)

At(s, pc)     == tx[s].pc = pc
Saving(s)     == tx[s].section # None
Activating(s) == ~At(s, "idle") /\ ~Saving(s)

\* The rows whose locks s holds: it has updated them and not yet committed.
Locked(s) == IF At(s, "commit") THEN tx[s].marks ELSE {}

\* _save_section: the configuration in force is read and copied.
BeginSave(s, k) ==
    /\ At(s, "idle")
    /\ Overlapping \/ \A r \in Sessions : ~Activating(r)
    /\ Active # {}
    /\ tx' = [tx EXCEPT ![s] = [Idle EXCEPT !.pc = "number", !.section = k,
                                            !.from = ActiveVersion]]
    /\ overtaken' = overtaken \ {s}
    /\ UNCHANGED rows

\* next_version: one more than the largest number committed.
Number(s) ==
    /\ At(s, "number")
    /\ Len(rows) < MaxVersions
    /\ tx' = [tx EXCEPT ![s].pc = "list", ![s].version = Len(rows) + 1]
    /\ UNCHANGED <<rows, overtaken>>

\* The rows found active are to be switched off.
List(s) ==
    /\ At(s, "list") /\ Saving(s)
    /\ tx' = [tx EXCEPT ![s].pc = "update", ![s].marks = Active]
    /\ UNCHANGED <<rows, overtaken>>

\* activate_version: the target is read first and the session keeps the object.
BeginActivate(s, v) ==
    /\ At(s, "idle")
    /\ Overlapping \/ \A r \in Sessions : At(r, "idle")
    /\ Active # {} => v # ActiveVersion
    /\ tx' = [tx EXCEPT ![s] = [Idle EXCEPT !.pc = "list", !.version = v,
                                            !.seen = rows[v].active]]
    /\ UNCHANGED <<rows, overtaken>>

\* Only the rows whose flag is not what it should be are updated, the target
\* going by its flag as it was read before.
Compare(s) ==
    /\ At(s, "list") /\ Activating(s)
    /\ LET v == tx[s].version
       IN  tx' = [tx EXCEPT ![s].pc = "update",
                            ![s].marks = (Active \ {v}) \cup (IF tx[s].seen THEN {} ELSE {v})]
    /\ UNCHANGED <<rows, overtaken>>

\* The UPDATEs wait for rows another transaction has updated.
Update(s) ==
    /\ At(s, "update")
    /\ \A r \in Sessions \ {s} : Locked(r) \cap tx[s].marks = {}
    /\ tx' = [tx EXCEPT ![s].pc = "commit"]
    /\ UNCHANGED <<rows, overtaken>>

Flagged(s) == [v \in Versions |->
    IF v \in tx[s].marks
    THEN [rows[v] EXCEPT !.active = Activating(s) /\ v = tx[s].version]
    ELSE rows[v]]

\* The section saved is new, the others are those of the copy.
Saved(s) == [active |-> TRUE,
             content |-> [rows[tx[s].from].content EXCEPT ![tx[s].section] = tx[s].version]]

\* The transaction ends.
Ends(s) == tx' = [tx EXCEPT ![s] = Idle]

\* Mutant of CommitSave: version has no unique index.
CommitSaveAnyway(s) == /\ At(s, "commit") /\ Saving(s)
                       /\ rows' = Append(Flagged(s), Saved(s))
                       /\ overtaken' = (overtaken \cup {r \in Sessions : At(r, "number")}) \ {s}
                       /\ Ends(s)

\* The INSERT fails when another transaction has stored that version.
CommitSave(s) ==
    /\ At(s, "commit") /\ Saving(s)
    /\ IF tx[s].version = Len(rows) + 1
       THEN /\ rows' = Append(Flagged(s), Saved(s))
            /\ overtaken' = (overtaken \cup {r \in Sessions : At(r, "number")}) \ {s}
       ELSE UNCHANGED rows /\ overtaken' = overtaken \ {s}
    /\ Ends(s)

CommitActivate(s) ==
    /\ At(s, "commit") /\ Activating(s)
    /\ rows' = Flagged(s)
    /\ overtaken' = overtaken \cup {r \in Sessions : Saving(r)}
    /\ Ends(s)

\* Any statement can fail, as the victim of a deadlock for one.
Abort(s) == /\ ~At(s, "idle")
            /\ overtaken' = overtaken \ {s}
            /\ Ends(s)
            /\ UNCHANGED rows

Next == \E s \in Sessions :
           \/ \E k \in Sections : BeginSave(s, k)
           \/ \E v \in Versions : BeginActivate(s, v)
           \/ Number(s) \/ List(s) \/ Compare(s) \/ Update(s)
           \/ CommitSave(s) \/ CommitActivate(s) \/ Abort(s)

Spec == Init /\ [][Next]_vars

-----------------------------------------------------------------------------
(* Exactly one version is active (db/models/config.py:3-4): sections saved    *)
(* at the same moment, by any number of administrators, neither leave the     *)
(* replaced version active nor switch each other off.                         *)
OneActive == Cardinality(Active) = 1

(* A section is lost only to a save that was overtaken: one committed with    *)
(* nothing between its read of the configuration in force and its number puts *)
(* a version in force that differs from the one in force until then in the    *)
(* section saved and in nothing else, whatever the saves beside it have read, *)
(* numbered and switched off by then.                                         *)
SavesKeepOtherSections ==
    [][\A s \in Sessions :
          At(s, "commit") /\ Saving(s) /\ Len(rows') > Len(rows) /\ At(s, "idle")'
             /\ s \notin overtaken
          => /\ rows'[ActiveVersion'].content[tx[s].section] = Len(rows')
             /\ \A k \in Sections \ {tx[s].section} :
                   rows'[ActiveVersion'].content[k] = rows[ActiveVersion].content[k]]_vars
=============================================================================
