----------------------------- MODULE MCBrowser ------------------------------
(***************************************************************************)
(* Small instances of the parts of a browser's page, side by side: every   *)
(* behaviour is one of one part, and the others stay as they began.        *)
(***************************************************************************)
EXTENDS SendPanel, Inbox, PeerReconnect, StatsFeed, PeerLinks, Spotlight, UploadBar,
        Address, Labels

CONSTANTS p1, p2, x, y

VARIABLE part

\* One file; and three, two of them with the same name and one called like a counted one.
SomeFiles == {<< <<0>> >>, << <<0>>, <<0, 1>>, <<0>> >>}

\* Around every change of unit, of digits and of rounding.
SomeAmounts ==
  {0, 1, 9, 10, 99, 100, 999, 1000, 1004, 1005, 1014, 1015, 1023, 1024, 1025, 1029, 1030,
   1075, 1076, 1536, 2048, 4096, 10234, 10235, 10239, 10240, 102399, 102400, 1023487,
   1023999, 1048575, 1048576, 1053818, 1053819, 1101004, 4194304}

\* Which of two browsers, or of two other ones, is which makes no difference.
Alike == Permutations({x, y}) \cup Permutations({p1, p2})

\* The variables each part alone has; tray is of the panel and of the reconnection.
panelOnly == <<panel, picks, archive, dragging, seen, orphans, panelWorld, panelHistory>>
reconnectOnly == <<client, reached, losses, tries, calls, fatal>>
browserVars == <<part, panelVars, reconnectOnly, inboxVars, statsVars, linkVars,
                 spotlightVars, uploadVars, addressVars, sample>>

NotPanel == <<part, reconnectOnly, inboxVars, statsVars, linkVars, spotlightVars,
              uploadVars, addressVars, sample>>
NotReconnect == <<part, panelOnly, inboxVars, statsVars, linkVars, spotlightVars,
                  uploadVars, addressVars, sample>>
NotInbox == <<part, panelVars, reconnectOnly, statsVars, linkVars, spotlightVars,
              uploadVars, addressVars, sample>>
NotStats == <<part, panelVars, reconnectOnly, inboxVars, linkVars, spotlightVars,
              uploadVars, addressVars, sample>>
NotLinks == <<part, panelVars, reconnectOnly, inboxVars, statsVars, spotlightVars,
              uploadVars, addressVars, sample>>
NotSpotlight == <<part, panelVars, reconnectOnly, inboxVars, statsVars, linkVars,
                  uploadVars, addressVars, sample>>
NotUpload == <<part, panelVars, reconnectOnly, inboxVars, statsVars, linkVars,
               spotlightVars, addressVars, sample>>
NotAddress == <<part, panelVars, reconnectOnly, inboxVars, statsVars, linkVars,
                spotlightVars, uploadVars, sample>>

InPanel == part = "panel" /\ UNCHANGED NotPanel
InReconnect == part = "reconnect" /\ UNCHANGED NotReconnect
InInbox == part = "inbox" /\ UNCHANGED NotInbox
InStats == part = "stats" /\ UNCHANGED NotStats
InLinks == part = "links" /\ UNCHANGED NotLinks
InSpotlight == part = "spotlight" /\ UNCHANGED NotSpotlight
InUpload == part = "upload" /\ UNCHANGED NotUpload
InAddress == part = "address" /\ UNCHANGED NotAddress

\* A part that is not looked at begins in one way; the two codes are interchangeable.
PartsInit ==
  /\ PanelInit /\ StatsInit /\ LinksInit /\ SpotlightInit /\ UploadInit /\ AddressInit
  /\ ReconnectInit /\ (part # "reconnect" => reached)
  /\ InboxInit /\ code = 1
  /\ IF part = "labels" THEN LabelsInit ELSE sample = [kind |-> "none"]

BrowserInit ==
  /\ part \in {"panel", "reconnect", "inbox", "stats", "links", "spotlight", "upload",
             "address", "labels"}
  /\ PartsInit

BrowserNext ==
  \/ InPanel /\ PanelNext
  \/ InReconnect /\ ReconnectNext
  \/ InInbox /\ InboxNext
  \/ InStats /\ StatsNext
  \/ InLinks /\ LinksNext
  \/ InSpotlight /\ SpotlightNext
  \/ InUpload /\ UploadNext
  \/ InAddress /\ AddressNext

BrowserSpec == BrowserInit /\ [][BrowserNext]_browserVars
=============================================================================
