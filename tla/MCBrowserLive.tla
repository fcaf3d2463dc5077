---------------------------- MODULE MCBrowserLive ----------------------------
(***************************************************************************)
(* The parts of a browser's page and its session, side by side, under the  *)
(* fairness of each.                                                       *)
(***************************************************************************)
EXTENDS MCBrowser, RoomSession

liveVars == <<browserVars, vars>>

\* One behaviour is of one part.
InSession == part = "session" /\ UNCHANGED browserVars
InBrowser == UNCHANGED vars

LiveInit ==
  /\ part \in {"panel", "reconnect", "inbox", "stats", "session"}
  /\ PartsInit
  /\ Init /\ (part # "session" => url = Lan)

LiveNext == (InSession /\ Next) \/ (InBrowser /\ BrowserNext)

IsPanel == part = "panel"
IsInbox == part = "inbox"
IsReconnect == part = "reconnect"
IsStats == part = "stats"
IsSession == part = "session"

\* What PanelFairness, InboxFairness, ReconnectFairness, StatsFairness and FairSpec say,
\* each of its own part.
LiveFairness ==
  /\ WF_panelVars(IsPanel /\ SendEffect)
  /\ WF_panelVars(IsPanel /\ TransferEffect)
  /\ WF_panelVars(IsPanel /\ CompletionTimer)
  /\ WF_panelVars(IsPanel /\ WaitTimeout)
  /\ WF_panelVars(IsPanel /\ (CallSucceeds \/ CallFails \/ CallThrows))
  /\ WF_panelVars(IsPanel /\ (ZipDone \/ ZipFails))
  /\ WF_inboxVars(IsInbox /\ GateEffect /\ OutsideGate)
  /\ WF_inboxVars(IsInbox /\ ReadyTimer /\ OutsideGate)
  /\ WF_inboxVars(IsInbox /\ PageMounts /\ OutsideGate)
  /\ WF_inboxVars(IsInbox /\ OverlayEffect /\ OutsideGate)
  /\ WF_inboxVars(IsInbox /\ ReleaseTimer /\ OutsideGate)
  /\ WF_inboxVars(IsInbox /\ ReceiveTimeout)
  /\ \A f \in File : WF_inboxVars(IsInbox /\ BarGoes(f))
  /\ WF_reconnectVars(IsReconnect /\ Open)
  /\ WF_reconnectVars(IsReconnect /\ Lost)
  /\ WF_reconnectVars(IsReconnect /\ Attempt)
  /\ WF_reconnectVars(IsReconnect /\ CleanUp)
  /\ \A i \in 1..MaxRequests :
       WF_statsVars(IsStats /\ i \in DOMAIN requests
                    /\ (Save(i) \/ Read(i) \/ ReadFails(i) \/ Emit(i)))
  /\ WF_statsVars(IsStats /\ Fetch)
  /\ WF_statsVars(IsStats /\ FetchTimeout)
  /\ WF_statsVars(IsStats /\ TakeStat)
  /\ WF_statsVars(IsStats /\ \E f \in Field : FetchRead(f))
  /\ WF_statsVars(IsStats /\ FetchAnswer)
  /\ WF_vars(IsSession /\ Render) /\ WF_vars(IsSession /\ UrlLands)
  /\ WF_vars(IsSession /\ TimerFires)
  /\ WF_vars(IsSession /\ Connect) /\ WF_vars(IsSession /\ TakeAnswer)
  /\ WF_vars(IsSession /\ Serve)
  /\ \A r \in Room : WF_vars(IsSession /\ Answer(r))
  /\ WF_vars(IsSession /\ \E new \in BOOLEAN : PeerOpens(new))

LiveSpec == LiveInit /\ [][LiveNext]_liveVars /\ LiveFairness
=============================================================================
