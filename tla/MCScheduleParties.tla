------------------------- MODULE MCScheduleParties -------------------------
(* Instances of ScheduledRuns in which a behaviour chooses its parties      *)
(* initially: one admin against two servers with two messages; two admins   *)
(* against one server with room for one more version; one admin with two    *)
(* schedules against two servers that both receive one message; or one      *)
(* admin against one server while the clock moves.                          *)
EXTENDS MCScheduledRuns

VARIABLE party

Party(admins, schedules, servers, messages, configs, ids, times) ==
    [admins |-> admins, schedules |-> schedules, servers |-> servers, messages |-> messages,
     configs |-> configs, ids |-> ids, times |-> times]

Parties ==
    UNION {
        {Party({a}, {s}, Servers, Messages, Configs, 1..2, {0}) : a \in Admins, s \in Schedules},
        {Party(Admins, {s}, {p}, {d}, SkipOnly, 1..3, {0}) :
            s \in Schedules, p \in Servers, d \in Messages},
        {Party({a}, Schedules, Servers, {d}, SkipOnly, 1..2, {0}) :
            a \in Admins, d \in Messages},
        {Party({a}, {s}, {p}, {d}, SkipOnly, 1..2, 0..MaxTime) :
            a \in Admins, s \in Schedules, p \in Servers, d \in Messages}}

PartyInit == party \in Parties /\ Init

PartyNext ==
    /\ UNCHANGED party
    /\ \/ \E a \in party.admins : /\ ControlStep(a) /\ UNCHANGED <<srv, answers>>
                                  /\ ctl'[a].at \in party.times
       \/ \E p \in party.servers : /\ AdmissionStep(p) /\ UNCHANGED ctl
                                   /\ srv'[p].message \in party.messages \union {None}
       \/ /\ \/ Tick /\ now' \in party.times
             \/ \E r \in DOMAIN runs, to \in {"RUNNING", "WAITING", "SUCCEEDED", "FAILED"} :
                   Drive(r, to)
          /\ UNCHANGED <<ctl, srv, answers>>
    /\ \A s \in Schedules : schedule'[s] # schedule[s] => s \in party.schedules
    /\ DOMAIN versions' \subseteq party.ids
    /\ \A v \in DOMAIN versions' : versions'[v].config \in party.configs

PartySpec == PartyInit /\ [][PartyNext]_<<vars, party>>

OneAdmin == \E a \in Admins : party.admins = {a}

(* While one admin at a time acts, a schedule is never deleted under a live *)
(* run, whatever deliveries arrive between the probe and the tombstone, and *)
(* a deleted schedule keeps its tombstone and is never ACTIVE again         *)
(* (deleteSchedule; the comment on enableSchedule, schedules.ts).           *)
SerialDeletionIsTerminal ==
    /\ [](OneAdmin => \A s \in Schedules : DeletedIsQuiet(s))
    /\ [][OneAdmin => \A s \in Schedules : StaysDeleted(s)]_vars
=============================================================================
