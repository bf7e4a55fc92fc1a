------------------------------ MODULE MCStores ------------------------------
(***************************************************************************)
(* What the bot keeps in MongoDB and beside it: the record of one user,    *)
(* who logs in and out while other work reads it, and the settings of the  *)
(* owner, whose commands overlap with the start and with each other.  The  *)
(* two share neither state nor calls: a behaviour works on one of them and *)
(* leaves the other alone.                                                 *)
(***************************************************************************)
EXTENDS UserStore, OwnerSettings, TLC

CONSTANTS u1, login, logout, assign, revoke, read, old

MCUserOf == [c \in Calls |-> u1]
MCKindOf == [c \in Calls |-> IF c = login THEN "login" ELSE IF c = logout THEN "logout"
                             ELSE IF c = assign THEN "assign" ELSE IF c = revoke THEN "revoke" ELSE "read"]
Work(cs, n) == [calls |-> cs, faults |-> n]

MCWorkloads == {Work({login, logout}, 0), Work({login, read}, 1), Work({logout, read}, 2),
                Work({assign, revoke}, 3), Work({revoke, read, assign}, 1), Work({}, 0)}

-----------------------------------------------------------------------------
CONSTANTS i1, i2, vip1, vip2, normal, add, remove, off

\* Two limits of one role and one of another; what is done to the list of channels.
Makes(k, i, l) == [key |-> k, item |-> i, level |-> l]

MCDoes == [c \in Commands |->
              CASE c = vip1   -> Makes("limits", i1, Low)
                [] c = vip2   -> Makes("limits", i1, High)
                [] c = normal -> Makes("limits", i2, Low)
                [] c = add    -> Makes("channels", i2, High)
                [] c = off    -> Makes("channels", i1, Low)
                [] c = remove -> Makes("channels", i1, NoLevel)]

MCEarlier == [k \in Keys |-> [i \in Items |-> IF i = i1 THEN High ELSE NoLevel]]

Case(cs, l, f) == [commands |-> cs, launches |-> l, faults |-> f]

MCCases == {Case({vip1, vip2}, 1, 1), Case({normal}, 2, 3), Case({add}, 2, 3),
            Case({remove, add}, 1, 1), Case({off, normal}, 1, 1), Case({vip1, normal}, 1, 2),
            Case({}, 0, 0)}

Idle         == phase = "down" /\ faults = 0 /\ \A c \in Calls : pc[c] = "done"
SettingsIdle == launches = 0 /\ \A c \in Commands : place[c] = "done"

StoresInit == /\ Init /\ SettingsInit
              /\ \/ Idle /\ \A u \in Users : doc[u] = Absent
                 \/ SettingsIdle /\ \A k \in Keys : remote[k] = Unset /\ listing = Unset

StoresNext == \/ SettingsIdle /\ process = "down" /\ Next /\ UNCHANGED settingsVars
              \/ SettingsNext /\ UNCHANGED vars

StoresSpec == /\ StoresInit /\ [][StoresNext]_<<vars, settingsVars>>
              /\ Fairness /\ SettingsFairness
=============================================================================
