------------------------------- MODULE Alarms -------------------------------
(***************************************************************************)
(* Alarms on local mountpoints: caster/alarms.c.                           *)
(*                                                                         *)
(* A timer looks at each mountpoint every ALARM_CHECK_INTERVAL_S seconds   *)
(* and starts one process, ruckus, for each alarm that is due; SIGCHLD     *)
(* tells how it ended.  Both callbacks run on one event loop.              *)
(*                                                                         *)
(* Time is counted in checks.  A time `t' of the code is the age `now - t' *)
(* here, as of the last check: every age grows by one at each check, up to *)
(* AgeMax, beyond which no threshold tells ages apart.  Unset is tv_sec =  *)
(* 0.  A process that ends between two checks may set an age to -1: less   *)
(* than one check has elapsed at the next one.                             *)
(***************************************************************************)
EXTENDS Integers, FiniteSets

CONSTANTS Mountpoints,
          Configs,   \* alarms blocks: see ConfigType
          Reloads,   \* pairs of a block and of one that may replace it
          AgeMax,    \* bound: ages are counted up to it
          MaxSends   \* bound: processes of one alarm that run at a time

\* low_sv_count and position_drift
Conditions == {"low_sv_count", "position_drift"}
Types == {"station_offline", "station_online", "low_sv_count", "position_drift"}

Unset == -2
Ages == Unset .. AgeMax

\* after_minutes of each type (Unset if its block is absent), the types that
\* some recipient wants, those that each mountpoint wants, min_interval_minutes,
\* and the mountpoints of the local sourcetable (none without an alarms block).
ConfigType ==
  [after : [Types -> {Unset} \cup 0 .. AgeMax], recipients : SUBSET Types,
   mountpoints : [Mountpoints -> SUBSET Types], min_interval : 0 .. AgeMax,
   listed : SUBSET Mountpoints]

ASSUME BoundAssumption == AgeMax \in Nat /\ MaxSends \in Nat \ {0}
ASSUME ConfigAssumption ==
  Configs \subseteq ConfigType /\ Reloads \subseteq Configs \X Configs

VARIABLES
  config,     \* the configuration
  state,      \* struct alarm_mountpoint_state of each mountpoint
  sends,      \* number of processes that run, by mountpoint and type
  fired,      \* alarms fired at the last check under this configuration
  seen,       \* ages of the last check that found the source live, absent, or
              \* evaluated a condition that did not hold
  announced,  \* online alarms of each mountpoint since it was last absent
  overlap,    \* alarms fired again while a process for them was running
  odd         \* parity of the number of checks made

vars == <<config, state, sends, fired, seen, announced, overlap, odd>>

NewState ==
  [was_live |-> -1, offline_since |-> Unset, offline_crossed_threshold |-> FALSE,
   online_since |-> Unset, since |-> [t \in Conditions |-> Unset],
   last_sent |-> [t \in Types |-> Unset]]

Init ==
  /\ config \in Configs
  /\ state = [m \in Mountpoints |-> NewState]
  /\ sends = [m \in Mountpoints, t \in Types |-> 0]
  /\ fired = [m \in Mountpoints |-> {}]
  /\ seen = [m \in Mountpoints |-> [e \in {"live", "absent"} \cup Conditions |-> Unset]]
  /\ announced = [m \in Mountpoints |-> 0]
  /\ overlap = {}
  /\ odd = FALSE

----------------------------------------------------------------------------
(* One mountpoint: alarms_check_one, on its state s as of this check.      *)

\* An age, and a state, at the next check
Older(age) == IF age \in {Unset, AgeMax} THEN age ELSE age + 1
OlderState(s) ==
  [s EXCEPT !.offline_since = Older(@), !.online_since = Older(@),
            !.since = [t \in Conditions |-> Older(@[t])],
            !.last_sent = [t \in Types |-> Older(@[t])]]

\* A time that is set to now if it was not set
Started(age) == IF age = Unset THEN 0 ELSE age

\* The block of the type is configured, and mountpoint_wants
Wants(m, t) == config.after[t] # Unset /\ t \in config.mountpoints[m]

\* Mutant: the configured interval is not looked at.
alarm_rate_okMutant(s, t) == s.last_sent[t] = Unset \/ s.last_sent[t] >= 0

alarm_rate_ok(s, t) == s.last_sent[t] = Unset \/ s.last_sent[t] >= config.min_interval

\* The source is live: the recovery counts if the outage reached the threshold
\* of station_offline, and is over when it has lasted long enough.
OnlineEnabled(m, s) ==
  /\ Wants(m, "station_online")
  /\ config.after["station_offline"] = Unset \/ s.offline_crossed_threshold
OnlineDue(m, s) ==
  /\ s.was_live = 0
  /\ OnlineEnabled(m, s) => Started(s.online_since) >= config.after["station_online"]
OnlineFires(m, s) ==
  OnlineDue(m, s) /\ OnlineEnabled(m, s) /\ alarm_rate_ok(s, "station_online")

\* Mutant: the mountpoint is still considered offline after its alarm.
LiveStateMutant(m, s) ==
  [s EXCEPT !.online_since = IF s.was_live = 0 THEN Started(@) ELSE @,
            !.offline_since = Unset]

LiveState(m, s) ==
  [s EXCEPT !.online_since = IF s.was_live = 0 THEN Started(@) ELSE @,
            !.was_live = IF OnlineDue(m, s) THEN 1 ELSE @,
            !.offline_since = Unset]

\* Mutant: the alarm is due at the check that reaches the threshold only.
OfflineDueMutant(m, s) ==
  /\ Wants(m, "station_offline")
  /\ Started(s.offline_since) = config.after["station_offline"]

\* There is no source.
OfflineDue(m, s) ==
  /\ Wants(m, "station_offline")
  /\ Started(s.offline_since) >= config.after["station_offline"]
OfflineFires(m, s) == OfflineDue(m, s) /\ alarm_rate_ok(s, "station_offline")

AbsentState(m, s) ==
  [s EXCEPT !.online_since = Unset, !.was_live = 0,
            !.offline_since = Started(@),
            !.offline_crossed_threshold =
                (s.offline_since # Unset /\ @) \/ OfflineDue(m, s)]

\* A condition that is found to hold, not to hold, or is not known (the sidecar
\* says nothing of the mountpoint)
ConditionFires(m, s, t, found) ==
  /\ Wants(m, t) /\ found = "yes"
  /\ Started(s.since[t]) >= config.after[t]
  /\ alarm_rate_ok(s, t)

\* Mutant: a condition that ceases to hold is not forgotten.
ConditionAgeMutant(m, s, t, found) ==
  IF Wants(m, t) /\ found = "yes" THEN Started(s.since[t]) ELSE s.since[t]

ConditionAge(m, s, t, found) ==
  IF ~Wants(m, t) \/ found = "unknown" THEN s.since[t]
  ELSE IF found = "yes" THEN Started(s.since[t]) ELSE Unset

Fires(m, s, live, found) ==
  {t \in Types :
     \/ t = "station_online" /\ live /\ OnlineFires(m, s)
     \/ t = "station_offline" /\ ~live /\ OfflineFires(m, s)
     \/ t \in Conditions /\ ConditionFires(m, s, t, found[t])}

\* Some recipient wants the alarms of type t.
RecipientWants(t) == t \in config.recipients

\* fire_alarm returns 1 only if nobody wants the alarm: last_sent is set then,
\* and otherwise when the process has succeeded.
fire_alarm(t) == ~RecipientWants(t)

\* alarms_check_one
Checked(m, s, live, found, fires) ==
  [IF live THEN LiveState(m, s) ELSE AbsentState(m, s) EXCEPT
     !.since = [t \in Conditions |-> ConditionAge(m, s, t, found[t])],
     !.last_sent = [t \in Types |-> IF t \in fires /\ fire_alarm(t) THEN 0 ELSE @[t]]]

----------------------------------------------------------------------------
\* What a check can find of the conditions it evaluates
Found(m) ==
  {f \in [Conditions -> {"yes", "no", "unknown"}] :
     /\ f["position_drift"] # "unknown"
     /\ \A t \in Conditions : Wants(m, t) \/ f[t] = "no"}

\* spawn_ruckus: processes are started, whatever runs already.
Spawn(started) ==
  /\ \A a \in started : sends[a] < MaxSends
  /\ sends' = [a \in DOMAIN sends |-> IF a \in started THEN sends[a] + 1 ELSE sends[a]]

\* alarms_tick_cb.  A process may fail to start (pipe, fork, payload).
Tick(live, found) ==
  LET old == [m \in Mountpoints |-> OlderState(state[m])]
      fires == [m \in Mountpoints |->
                  IF m \in config.listed THEN Fires(m, old[m], live[m], found[m]) ELSE {}]
      alarms == {<<m, t>> \in Mountpoints \X Types : t \in fires[m]}
  IN /\ fired' = fires
     /\ state' = [m \in Mountpoints |->
          IF m \in config.listed THEN Checked(m, old[m], live[m], found[m], fires[m])
                               ELSE old[m]]
     /\ \E started \in SUBSET {a \in alarms : RecipientWants(a[2])} : Spawn(started)
     /\ overlap' = overlap \cup {a \in alarms : sends[a] > 0}
     /\ seen' = [m \in Mountpoints |-> [e \in DOMAIN seen[m] |->
          IF m \in config.listed /\ \/ e = "live" /\ live[m]
                                    \/ e = "absent" /\ ~live[m]
                                    \/ e \in Conditions /\ Wants(m, e) /\ found[m][e] = "no"
            THEN 0 ELSE Older(seen[m][e])]]
     /\ announced' = [m \in Mountpoints |->
          IF m \in config.listed /\ ~live[m] THEN 0
          ELSE announced[m] + IF "station_online" \in fires[m] THEN 1 ELSE 0]
     /\ odd' = ~odd
     /\ UNCHANGED config

\* alarms_sigchld_cb: the mail was accepted.
Succeed(m, t, age) ==
  /\ sends[m, t] > 0
  /\ sends' = [sends EXCEPT ![m, t] = @ - 1]
  /\ state' = [state EXCEPT ![m].last_sent[t] = age]
  /\ UNCHANGED <<config, fired, seen, announced, overlap, odd>>

\* alarms_sigchld_cb: ruckus failed, or could not be executed.
Fail(m, t) ==
  /\ sends[m, t] > 0
  /\ sends' = [sends EXCEPT ![m, t] = @ - 1]
  /\ UNCHANGED <<config, state, fired, seen, announced, overlap, odd>>

\* caster_load: the configuration changes, the state of the alarms does not.
Reload(c) ==
  /\ <<config, c>> \in Reloads
  /\ config' = c
  /\ fired' = [m \in Mountpoints |-> {}]
  /\ UNCHANGED <<state, sends, seen, announced, overlap, odd>>

Findings == {f \in [Mountpoints -> UNION {Found(m) : m \in Mountpoints}] :
               \A m \in Mountpoints : f[m] \in Found(m)}

AnyTick == \E live \in [Mountpoints -> BOOLEAN], found \in Findings : Tick(live, found)

Exit(m, t) == Fail(m, t) \/ \E age \in {-1, 0} : Succeed(m, t, age)

Next ==
  \/ AnyTick
  \/ \E m \in Mountpoints, t \in Types : Exit(m, t)
  \/ \E c \in Configs : Reload(c)

\* The timer fires again and again: checks of both parities are made.
Fairness == []<>odd /\ []<>~odd

Spec == Init /\ [][Next]_vars
FairSpec == Spec /\ Fairness

----------------------------------------------------------------------------
(* Properties.                                                             *)

\* An event was last seen more than n checks ago, or never.
NotSeenFor(m, e, n) == seen[m][e] = Unset \/ seen[m][e] > n

\* An alarm tells the truth whatever came before it: interrupted outages and
\* recoveries, configurations loaded in between, checks without an answer of the
\* sidecar.  No check found the contrary during the time its threshold requires.
FiredIsReal ==
  \A m \in Mountpoints, t \in Types :
    t \in fired[m] =>
      NotSeenFor(m, CASE t = "station_offline" -> "live"
                      [] t = "station_online" -> "absent"
                      [] OTHER -> t, config.after[t])

\* A recovery is announced once, also if the mail cannot be sent.
OnlineOnce == \A m \in Mountpoints : announced[m] <= 1

\* A mail accepted for alarm t of mountpoint m comes at least min_interval_minutes
\* after the one before.
Spaced(m, t) ==
  (/\ sends'[m, t] < sends[m, t]
   /\ state'[m].last_sent[t] # state[m].last_sent[t]) =>
     state[m].last_sent[t] = Unset \/ state[m].last_sent[t] >= config.min_interval

\* The rate limit, which is tested when a process is started and updated when it
\* succeeds, spaces the mails of an alarm unless it is fired again before a process ends.
SpacedUnlessOverlap ==
  [][\A m \in Mountpoints, t \in Types : <<m, t>> \in overlap \/ Spaced(m, t)]_vars

\* While a station stays down its alarm is fired again and again, whether mails
\* are accepted or fail: alarms.md, "Re-alerts every `min_interval_minutes' while
\* it stays down; this is not a one-shot".
RealertsWhileDown ==
  \A m \in Mountpoints :
    <>[](seen[m]["absent"] = 0 /\ Wants(m, "station_offline"))
      => []<>("station_offline" \in fired[m])
=============================================================================
