------------------------------ MODULE MCClients ------------------------------
(***************************************************************************)
(* What shows the journal, for TLC: the phone's own host and the journal      *)
(* page.  They share no state: a behaviour is about one of them, chosen at   *)
(* the start.                                                                *)
(***************************************************************************)
EXTENDS MobileRefresh, JournalPage

CONSTANT Clientele
VARIABLE client

clientVars == <<mobileVars, pageVars, client>>

ClientInit ==
    /\ client \in Clientele
    /\ MobileInit /\ PageInit
    /\ client # "phone" => /\ hosts = CHOOSE h \in HostSets : TRUE
                           /\ editor[Root] = CHOOSE t \in Good : TRUE
    /\ client # "page" => /\ orderly = CHOOSE o \in Orders : TRUE
    /\ engine.total = Most
    /\ user.filter = CHOOSE f \in Filters : TRUE

ClientNext ==
    /\ UNCHANGED client
    /\ \/ client = "phone" /\ MobileNext /\ UNCHANGED pageVars
       \/ client = "page" /\ PageNext /\ UNCHANGED mobileVars

\* The provider brings what it is asked for, the host refreshes again and again
\* (on each foreground, and "shortly" after it is told to wait), and threads run;
\* a mutex is handed on fairly.
MobileFairness ==
    /\ \A f \in Files : WF_mobileVars(client = "phone" /\ Download(f))
    /\ \A r \in Refreshers : /\ WF_mobileVars(client = "phone" /\ Begin(r))
                            /\ SF_mobileVars(client = "phone" /\ Refreshing(r))
    /\ \A c \in Clients : WF_mobileVars(client = "phone" /\ Resyncing(c))

\* The poll runs while the page is visible, effects run, the engine answers and
\* an answer arrives, unless its request failed.
PageFairness ==
    /\ WF_pageVars(client = "page" /\ Poll) /\ WF_pageVars(client = "page" /\ Sync)
    /\ WF_pageVars(client = "page" /\ Ensure)
    /\ \A kind \in Kinds :
          WF_pageVars(/\ client = "page"
                      /\ \E i \in DOMAIN asks : /\ asks[i].kind = kind
                                                /\ Replied(i) \/ Arrival(i))

ClientSpec ==
    ClientInit /\ [][ClientNext]_clientVars
    /\ MobileFairness /\ PageFairness

=============================================================================
