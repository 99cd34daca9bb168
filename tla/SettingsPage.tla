---------------------------- MODULE SettingsPage ----------------------------
(* The settings page as a whole (frontend/src/pages/Settings.tsx): the form   *)
(* of the DNS settings and the upstreams beside it, mounted and left together.*)
EXTENDS SettingsUpstreams

vars == <<formVars, upstreamVars>>

Init == FormInit /\ UpstreamsInit

FormStep ==
    \/ \E k \in Settings, v \in Values : Edit(k, v)
    \/ Save \/ \E body \in Elsewhere : OtherSave(body)
    \/ \E u \in puts : WriteSetting(u) \/ SaveFails(u) \/ Saved(u) \/ SaveFailed(u)
    \/ ReadSetting \/ SelectFails \/ Loaded \/ LoadFailed \/ Retry \/ Focus
UpstreamsStep ==
    \/ \E q \in DOMAIN list : ListLoaded(q)
    \/ CloseDialog
    \/ \E c \in calls : \/ ServeCreateUpstream(c) \/ ReadUpstream(c) \/ WriteUpstream(c)
                        \/ ServeDeleteUpstream(c) \/ ServeTest(c) \/ PickUpstream(c) \/ LogFailover(c)
                        \/ UpstreamSaved(c) \/ UpstreamDeleted(c) \/ FailoverAnswered(c)
                        \/ UpstreamFailed(c) \/ TestAnswered(c)
UpstreamsSent == SaveUpstream \/ Failover \/ (\E p \in Priorities : TypePriority(p))
                 \/ (\E i \in Ids \union {None} : OpenDialog(i))
                 \/ \E i \in Ids : DeleteUpstream(i) \/ TestUpstream(i) \/ OtherDeletes(i)

Next == \/ FormStep /\ UNCHANGED upstreamVars
        \/ UpstreamsStep /\ UNCHANGED formVars
        \/ UpstreamsSent /\ UNCHANGED <<page, query, stored, puts, version>>
        \/ Leave /\ LeaveUpstreams
        \/ Enter /\ EnterUpstreams

Spec == Init /\ [][Next]_vars
-----------------------------------------------------------------------------
(* A save that had no other one beside it has changed the settings it went    *)
(* through, to what the form said, and no others, wherever it is, and also if *)
(* it was refused or broke off on the way (update_dns is five statements and  *)
(* no transaction: with another save beside it the table is a mixture).       *)
StoredAsSaved ==
    \A u \in puts : u.alone =>
        \A i \in DOMAIN Order :
            stored[Order[i]] = IF i < u.at THEN u.body[Order[i]] ELSE u.before[Order[i]]

(* What was typed and not yet saved is taken away by a load only if a setting *)
(* was stored since the load that filled the form, or if a default stands in  *)
(* for a row that one of the two could not read: a load that brings nothing   *)
(* new never does (the effect on [settings]).                                 *)
EditsKept ==
    [][ (open /\ typed # {} /\ typed' = {} /\ get # Idle /\ get' = Idle)
        => version.stored > version.data \/ version.read = 0 ]_vars

(* What the dialog saves for an upstream was typed over that upstream, and    *)
(* what it creates was typed from nothing: whatever is answered, closed or    *)
(* reopened in between, it never saves one row over another.                  *)
SavesTheRowOpened == \A c \in calls : c.kind \in {"create", "update"} => c.from = c.id

(* An upstream deleted by anybody never comes back, though update reads the   *)
(* row and writes it in two statements.                                       *)
NoReturn == [][ \A i \in Ids : rows[i] = Gone => rows'[i] = Gone ]_vars
=============================================================================
