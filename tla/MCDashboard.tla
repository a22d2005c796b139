------------------------------ MODULE MCDashboard ------------------------------
(* Four parts of the dashboard process that share no variable: what its start   *)
(* finds on disk and in the table of settings (StartUp), its Telegram settings  *)
(* (TelegramConfig), its alerts table (AlertFeed) and the notifier (Notifier).  *)
(* A behaviour chooses one part at the start and the others stand still.        *)
(*                                                                              *)
(* Start: three of them, of which two may end at any step, and four .env.       *)
(* Settings: two saves that may overlap each other and a page, two tokens and a *)
(* chat id, empty and masked fields, a token in .env, one restart.              *)
(* Alerts: a page of two rows and a third alert, a route that allows one more,  *)
(* two lists under way at a time, so that an answer may be overtaken, and two   *)
(* clicks: to filter and acknowledge, or to acknowledge around an expiry.       *)
(* Notifier: two coroutines, two dedupe keys, a cooldown of two ticks of a      *)
(* clock that is read anywhere between 3 and 5 and may be set back.             *)
EXTENDS StartUp, TelegramConfig, AlertFeed, Notifier

VARIABLE part

MCTokens == {"t1", "t2"}
MCChats == {"c1"}
MCEnvs == [user : {"u1", "u2"}, password : {"w1", "w2"}]
MCTime == 3..5

---------------------------------------------------------------------------
DashboardVars == <<part, vars, settingsVars, feedVars, notifierVars>>

DashboardInit ==
  /\ part \in {"start", "settings", "alerts", "notifier"}
  /\ Init /\ SettingsInit /\ FeedInit /\ NotifierInit
  /\ part # "start" => env = CHOOSE e \in Envs : TRUE
  /\ part # "notifier" => clock = CHOOSE t \in Time : TRUE

DashboardNext ==
  /\ UNCHANGED part
  /\ \/ part = "start" /\ Next /\ UNCHANGED <<settingsVars, feedVars, notifierVars>>
     \/ part = "settings" /\ SettingsNext /\ UNCHANGED <<vars, feedVars, notifierVars>>
     \/ part = "alerts" /\ FeedNext /\ UNCHANGED <<vars, settingsVars, notifierVars>>
     \/ part = "notifier" /\ NotifierNext /\ UNCHANGED <<vars, settingsVars, feedVars>>

DashboardSpec ==
  /\ DashboardInit /\ [][DashboardNext]_DashboardVars
  /\ part = "alerts" => FeedFairness
===============================================================================
