------------------------------ MODULE MCAlarms ------------------------------
(* Instances of Alarms for model checking.                                 *)
EXTENDS Alarms

\* after_minutes of the four types, in checks
After(offline, online, low_sv, drift) ==
  [station_offline |-> offline, station_online |-> online,
   low_sv_count |-> low_sv, position_drift |-> drift]

Conf(after, recipients, wanted, listed) ==
  [after |-> after, recipients |-> recipients,
   mountpoints |-> [m \in Mountpoints |-> wanted],
   min_interval |-> 2, listed |-> listed]

Station == {"station_offline", "station_online"}

\* Outages with mails for both ends, and for none; recoveries alone
Outage == Conf(After(1, 1, Unset, Unset), Station, Types, Mountpoints)
Unsent == Conf(After(0, 0, Unset, Unset), {}, Types, Mountpoints)
Recovery == Conf(After(Unset, 0, Unset, Unset), Station, Types, Mountpoints)
\* A condition, silenced by a reload for the mountpoint, then with no alarms
\* block; and one that nobody gets mails for
LowSv == Conf(After(Unset, Unset, 1, Unset), {"low_sv_count"}, Types, Mountpoints)
Silenced == Conf(After(Unset, Unset, 1, Unset), {"low_sv_count"}, Station, Mountpoints)
Off == Conf(After(Unset, Unset, Unset, Unset), {}, {}, {})
Drift == Conf(After(Unset, Unset, Unset, 1), {}, Types, Mountpoints)

MCConfigs == {Outage, Unsent, Recovery, LowSv, Silenced, Off, Drift}
MCReloads ==
  {<<Outage, Unsent>>, <<Unsent, Recovery>>,
   <<LowSv, Silenced>>, <<Silenced, Off>>, <<Off, LowSv>>}
=============================================================================
