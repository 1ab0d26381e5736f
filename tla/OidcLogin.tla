------------------------------ MODULE OidcLogin -------------------------------
(***************************************************************************)
(* The cf plugin that logs in with an OIDC provider                        *)
(* (oidc-login-plugin/main.go): an HTTP server on the user's machine that  *)
(* waits for the browser to come back from the provider, stores the token  *)
(* in the cf configuration and shuts down when a connection first goes     *)
(* idle. The provider, the browser and net/http are outside the            *)
(* repository; of them the model has what main.go relies on.               *)
(***************************************************************************)
EXTENDS Naturals, FiniteSets

CONSTANTS
    Tabs,      \* browser tabs in which the user opens the printed URL
    Conns,     \* TCP connections the browser opens: the bound on their number
    None       \* no request

(* The callback with a code; without one that counts (an error of the      *)
(* provider, no code, another state); without any form; with a token from  *)
(* the page's script; any other path of the site.                          *)
Kinds == {"code", "refused", "bare", "idToken", "otherPath"}

ASSUME OidcLoginAssumption ==
    /\ None \notin Tabs \cup [tab : Tabs, kind : Kinds]
    /\ IsFiniteSet(Conns)

VARIABLES
    implicit,  \* was the command given --implicit?
    main,      \* what Run is doing
    listening, \* does the server accept connections?
    conn,      \* the net/http state of each connection
    hooked,    \* connections whose goroutine is in the ConnState hook
    gone,      \* connections the browser has closed
    request,   \* request on each connection, not yet answered
    pc,        \* where the handler of each connection is
    answer,    \* what the handler of each connection will say
    tab,       \* what each tab shows
    granted,   \* tabs for which the provider granted the login
    icons,     \* tabs that have asked for the site's icon
    temps,     \* connections whose handler has a temp-config file
    config,    \* the tab whose token the cf configuration holds
    stored     \* history: tabs whose token was stored at some time

serverVars == <<conn, hooked, pc, answer>>
browserVars == <<gone, tab, granted, icons>>
fileVars == <<temps, config, stored>>
runVars == <<implicit, listening>>
vars == <<main, runVars, request, serverVars, browserVars, fileVars>>

Mains == {"setup", "serving", "stopping", "shuttingDown", "ended", "fatal"}
ConnStates == {"none", "new", "active", "idle", "closed"}

Verdicts == {"success", "error"}

TypeOK ==
    /\ main \in Mains
    /\ implicit \in BOOLEAN /\ listening \in BOOLEAN
    /\ conn \in [Conns -> ConnStates]
    /\ hooked \subseteq Conns /\ gone \subseteq Conns /\ temps \subseteq Conns
    /\ request \in [Conns -> {None} \cup [tab : Tabs, kind : Kinds]]
    /\ pc \in [Conns -> {"read", "setActive", "serve", "load", "write", "rename",
                        "answer", "finish"}]
    /\ answer \in [Conns -> Verdicts \cup {"page", "notFound"}]
    /\ tab \in [Tabs -> Verdicts \cup {"provider", "waiting", "page", "lost", "left"}]
    /\ granted \subseteq Tabs /\ icons \subseteq Tabs /\ stored \subseteq Tabs
    /\ config \in Tabs \cup {None}
    /\ \A c \in Conns :
          /\ pc[c] = "setActive" => conn[c] \in {"new", "idle", "closed"}
          /\ pc[c] \notin {"read", "setActive"} => conn[c] \in {"active", "closed"}
          /\ pc[c] = "finish" => conn[c] = "active"
          /\ pc[c] # "read" /\ conn[c] = "closed" => main \in {"shuttingDown", "ended"}
          /\ pc[c] \notin {"read", "finish"} => request[c] # None
          /\ pc[c] = "answer" /\ answer[c] = "notFound" => request[c].kind = "otherPath"

Init ==
    /\ implicit \in BOOLEAN
    /\ main = "setup" /\ listening = FALSE
    /\ conn = [c \in Conns |-> "none"]
    /\ hooked = {} /\ gone = {}
    /\ request = [c \in Conns |-> None]
    /\ pc = [c \in Conns |-> "read"]
    /\ answer = [c \in Conns |-> "notFound"]
    /\ tab = [t \in Tabs |-> "provider"]
    /\ granted = {} /\ icons = {}
    /\ temps = {} /\ config = None /\ stored = {}

Running == main \notin {"setup", "ended", "fatal"}

-------------------------------------------------------------------------------
(***************************************************************************)
(* Run: flags, URLs, certificates and the provider's metadata are looked   *)
(* at before anything listens; each failure is fatal. Then the URL is      *)
(* printed, and a goroutine starts to listen.                              *)
(***************************************************************************)
Setup ==
    /\ main = "setup"
    /\ \/ main' = "serving"
       \/ main' = "fatal"
    /\ UNCHANGED <<runVars, request, serverVars, browserVars, fileVars>>

ListenAndServe ==
    /\ main = "serving" /\ ~listening
    /\ \/ main' = "serving" /\ listening' = TRUE
       \/ main' = "fatal" /\ UNCHANGED listening  \* the address is taken
    /\ UNCHANGED <<implicit, request, serverVars, browserVars, fileVars>>

(* The ConnState hook sends on done when a connection goes idle; done has  *)
(* no buffer and Run receives once, so that only one send ever gets        *)
(* through and later ones block their connection.                          *)
HookSends_OnNew(state) == state = "new"
HookSends_OnClosed(state) == state = "closed"

HookSends(state) == state = "idle"

(* c enters a state that the hook is told about. *)
Hooked(c, state) == IF HookSends(state) THEN hooked \cup {c} ELSE hooked

ReceiveDone(c) ==
    /\ main = "serving" /\ c \in hooked
    /\ main' = "stopping"
    /\ hooked' = hooked \ {c}
    /\ UNCHANGED <<runVars, request, conn, pc, answer, browserVars, fileVars>>

Shutdown ==
    /\ main = "stopping"
    /\ main' = "shuttingDown" /\ listening' = FALSE
    /\ UNCHANGED <<implicit, request, serverVars, browserVars, fileVars>>

(* A tab asked for c's answer, and still waits for it.                     *)
Awaited(c) == request[c] # None /\ request[c].kind # "otherPath"
Waits(c) == Awaited(c) /\ c \notin gone /\ conn[c] # "closed"

(* The tab that waits for c's answer shows s from now on. *)
Shows(c, s) ==
    tab' = IF Waits(c) THEN [tab EXCEPT ![request[c].tab] = s] ELSE tab

Close_KeepPc(c) ==  \* a slip: the handler of the closed connection stays
    /\ conn' = [conn EXCEPT ![c] = "closed"]
    /\ request' = [request EXCEPT ![c] = None]
    /\ pc' = pc

Close(c) ==
    /\ conn' = [conn EXCEPT ![c] = "closed"]
    /\ request' = [request EXCEPT ![c] = None]
    /\ pc' = [pc EXCEPT ![c] = "read"]

(* Shutdown closes idle connections, those in the hook included, and new   *)
(* ones that are five seconds old. Whether the goroutine of the connection *)
(* has read a request by then it does not know: a handler that has not yet *)
(* made its connection active runs on without it.                          *)
ShutdownClose(c) ==
    /\ main = "shuttingDown" /\ conn[c] \in {"new", "idle"}
    /\ Shows(c, "lost")
    /\ \/ pc[c] = "read" /\ Close(c)
       \/ /\ pc[c] = "setActive"
          /\ conn' = [conn EXCEPT ![c] = "closed"]
          /\ UNCHANGED <<request, pc>>
    /\ UNCHANGED <<main, runVars, hooked, answer, gone, granted, icons, fileVars>>

ShutdownReturns_Close ==  \* a slip: Close in place of Shutdown
    /\ main = "shuttingDown"
    /\ main' = "ended"
    /\ UNCHANGED <<runVars, request, serverVars, browserVars, fileVars>>

(* Shutdown returns, and Run with it, when no connection is left. *)
ShutdownReturns ==
    /\ main = "shuttingDown"
    /\ \A c \in Conns : conn[c] \in {"none", "closed"}
    /\ main' = "ended"
    /\ UNCHANGED <<runVars, request, serverVars, browserVars, fileVars>>

-------------------------------------------------------------------------------
(***************************************************************************)
(* The goroutine of a connection, which runs ServeHTTP for one request at  *)
(* a time.                                                                 *)
(***************************************************************************)
ReadRequest(c) ==
    /\ Running /\ pc[c] = "read"
    /\ conn[c] \in {"new", "idle"} /\ c \notin hooked /\ request[c] # None
    /\ pc' = [pc EXCEPT ![c] = "setActive"]
    /\ UNCHANGED <<main, runVars, request, conn, hooked, answer, browserVars, fileVars>>

(* Only now is the connection active, unless Shutdown has closed it.       *)
SetActive(c) ==
    /\ Running /\ pc[c] = "setActive"
    /\ conn' = [conn EXCEPT ![c] = IF @ = "closed" THEN @ ELSE "active"]
    /\ pc' = [pc EXCEPT ![c] = "serve"]
    /\ UNCHANGED <<main, runVars, request, hooked, answer, browserVars, fileVars>>

Say(c, a) ==
    /\ pc' = [pc EXCEPT ![c] = "answer"]
    /\ answer' = [answer EXCEPT ![c] = a]

GoTo(c, l) == pc' = [pc EXCEPT ![c] = l] /\ UNCHANGED answer

(* The switch over the form: a request without form gets the page, if its  *)
(* file is there; a token needs no more; a code is exchanged for a token   *)
(* at the provider.                                                        *)
ServeHTTP(c) ==
    /\ Running /\ pc[c] = "serve"
    /\ LET kind == request[c].kind
       IN  \/ kind = "otherPath" /\ Say(c, "notFound")
           \/ kind = "bare" /\ (Say(c, "page") \/ Say(c, "error"))
           \/ kind = "refused" /\ Say(c, "error")
           \/ kind = "idToken" /\ GoTo(c, "load")
           \/ kind = "code" /\ (GoTo(c, "load") \/ Say(c, "error"))
    /\ UNCHANGED <<main, runVars, request, conn, hooked, browserVars, fileVars>>

(* LoadConfig first removes the temporary files of whoever left them, this *)
(* program's other handlers included.                                      *)
LoadConfig(c) ==
    /\ Running /\ pc[c] = "load"
    /\ \/ temps' = {} /\ GoTo(c, "write")
       \/ temps' \in SUBSET temps /\ Say(c, "error")
    /\ UNCHANGED <<main, runVars, request, conn, hooked, browserVars, config, stored>>

(* WriteConfig writes a temporary file ... *)
WriteConfig(c) ==
    /\ Running /\ pc[c] = "write"
    /\ \/ temps' = temps \cup {c} /\ GoTo(c, "rename")
       \/ temps' \in {temps, temps \cup {c}} /\ Say(c, "error")
    /\ UNCHANGED <<main, runVars, request, conn, hooked, browserVars, config, stored>>

RenameConfig_Ignored(c) ==  \* a slip: the error of WriteConfig is not looked at
    /\ Running /\ pc[c] = "rename"
    /\ \/ /\ c \in temps
          /\ config' = request[c].tab
          /\ stored' = stored \cup {request[c].tab}
          /\ temps' = temps \ {c}
       \/ UNCHANGED fileVars
    /\ Say(c, "success")
    /\ UNCHANGED <<main, runVars, request, conn, hooked, browserVars>>

(* ... and renames it to the configuration file, which fails when the file *)
(* is gone.                                                                *)
RenameConfig(c) ==
    /\ Running /\ pc[c] = "rename"
    /\ \/ /\ c \in temps
          /\ config' = request[c].tab
          /\ stored' = stored \cup {request[c].tab}
          /\ temps' = temps \ {c}
          /\ Say(c, "success")
       \/ UNCHANGED fileVars /\ Say(c, "error")
    /\ UNCHANGED <<main, runVars, request, conn, hooked, browserVars>>

(* The answer is sent. While the server shuts down, it closes the          *)
(* connection with it, if it has not done so before; to a connection the   *)
(* browser has left the answer can fail, which closes it, or go unnoticed. *)
Answer(c) ==
    /\ Running /\ pc[c] = "answer"
    /\ Shows(c, answer[c])
    /\ answer' = [answer EXCEPT ![c] = "notFound"]
    /\ \/ (main = "shuttingDown" \/ c \in gone) /\ Close(c)
       \/ /\ main # "shuttingDown"
          /\ request' = [request EXCEPT ![c] = None]
          /\ pc' = [pc EXCEPT ![c] = "finish"]
          /\ UNCHANGED conn
    /\ UNCHANGED <<main, runVars, hooked, gone, granted, icons, fileVars>>

GoIdle(c) ==
    /\ Running /\ pc[c] = "finish"
    /\ conn' = [conn EXCEPT ![c] = "idle"]
    /\ hooked' = Hooked(c, "idle")
    /\ pc' = [pc EXCEPT ![c] = "read"]
    /\ UNCHANGED <<main, runVars, request, answer, browserVars, fileVars>>

(* The goroutine finds its connection closed by the browser. *)
ReadEOF(c) ==
    /\ Running /\ c \in gone /\ c \notin hooked
    /\ conn[c] \in {"new", "idle"} /\ request[c] = None
    /\ Close(c)
    /\ hooked' = Hooked(c, "closed")
    /\ UNCHANGED <<main, runVars, answer, browserVars, fileVars>>

-------------------------------------------------------------------------------
(* The browser opens connections, spare ones too, and may leave any.       *)
Connect(c) ==
    /\ listening /\ conn[c] = "none"
    /\ conn' = [conn EXCEPT ![c] = "new"]
    /\ hooked' = Hooked(c, "new")
    /\ UNCHANGED <<main, runVars, request, pc, answer, browserVars, fileVars>>

Leave(c) ==
    /\ Running /\ c \notin gone /\ conn[c] \notin {"none", "closed"}
    /\ gone' = gone \cup {c}
    /\ Shows(c, "left")
    /\ UNCHANGED <<main, runVars, request, serverVars, granted, icons, fileVars>>

Open(c) == conn[c] \notin {"none", "closed"} /\ c \notin gone /\ request[c] = None

Send(t, c, kind) ==
    /\ request' = [request EXCEPT ![c] = [tab |-> t, kind |-> kind]]
    /\ tab' = IF kind = "otherPath" THEN tab ELSE [tab EXCEPT ![t] = "waiting"]
    /\ UNCHANGED <<main, runVars, serverVars, gone, fileVars>>

(* The provider sends the tab back: with a code or with an error; or, in   *)
(* the implicit flow, with either in the fragment, which is not sent.      *)
Redirect(t, c) ==
    /\ Running /\ tab[t] = "provider" /\ Open(c)
    /\ \E grant \in BOOLEAN :
          /\ granted' = IF grant THEN granted \cup {t} ELSE granted
          /\ Send(t, c, IF implicit THEN "bare" ELSE IF grant THEN "code" ELSE "refused")
    /\ UNCHANGED icons

(* The script of the page sends what the fragment has as id_token, were it *)
(* undefined.                                                              *)
RunScript(t, c) ==
    /\ tab[t] = "page" /\ Open(c)
    /\ Send(t, c, "idToken")
    /\ UNCHANGED <<granted, icons>>

AskIcon(t, c) ==
    /\ tab[t] \in {"page", "success", "error"} /\ t \notin icons /\ Open(c)
    /\ Send(t, c, "otherPath")
    /\ icons' = icons \cup {t}
    /\ UNCHANGED granted

(* A connection is refused: the program does not listen yet, or no more.   *)
Refused(t) ==
    /\ main # "setup" /\ ~listening
    /\ tab[t] \in {"provider", "page"}
    /\ tab' = [tab EXCEPT ![t] = "lost"]
    /\ UNCHANGED <<main, runVars, request, serverVars, gone, granted, icons, fileVars>>

-------------------------------------------------------------------------------
Handler(c) ==
    \/ ReadRequest(c) \/ SetActive(c) \/ ServeHTTP(c)
    \/ LoadConfig(c) \/ WriteConfig(c) \/ RenameConfig(c)
    \/ Answer(c) \/ GoIdle(c) \/ ReadEOF(c)

Stop ==
    \/ Shutdown \/ ShutdownReturns
    \/ \E c \in Conns : ReceiveDone(c) \/ ShutdownClose(c)

Browser ==
    \/ \E c \in Conns : Connect(c) \/ Leave(c)
    \/ \E t \in Tabs :
          \/ Refused(t)
          \/ \E c \in Conns : Redirect(t, c) \/ RunScript(t, c) \/ AskIcon(t, c)

Next ==
    \/ Setup \/ ListenAndServe
    \/ \E c \in Conns : Handler(c)
    \/ Stop
    \/ Browser

Spec == Init /\ [][Next]_vars

(* Goroutines run on, the exchange with the provider and Shutdown's polls  *)
(* return. Nothing obliges the browser to do anything.                     *)
FairSpec == Spec /\ WF_vars(Stop) /\ \A c \in Conns : WF_vars(Handler(c))

-------------------------------------------------------------------------------
(* The end of the program leaves nobody waiting: every tab that waits for  *)
(* an answer gets one or sees its connection closed first (Shutdown waits  *)
(* for active connections and closes idle ones). A handler may be cut      *)
(* short by the end, when Shutdown closed its connection between the read  *)
(* of the request and StateActive, but its tab knows, or has been left.    *)
NobodyLeftWaiting ==
    main = "ended" =>
        /\ \A t \in Tabs : tab[t] # "waiting"
        /\ \A c \in Conns :
              Awaited(c) /\ pc[c] # "read" => tab[request[c].tab] \in {"lost", "left"}

(* A tab told of success has logged in at the provider and its token was   *)
(* stored; a tab told of an error left no token behind (the order of the   *)
(* checks in ServeHTTP, and another handler's LoadConfig between the two   *)
(* halves of WriteConfig). In the implicit flow success says only that     *)
(* what the script sent was stored.                                        *)
ToldTruth ==
    \A t \in Tabs :
        /\ tab[t] = "success" => t \in stored /\ (implicit \/ t \in granted)
        /\ tab[t] = "error" => t \notin stored

(* What makes that inductive. A request a tab waits on is the only one of  *)
(* that tab, and its handler's answer is true when it is given.            *)
OneRequestPerTab ==
    \A c, d \in Conns :
        Awaited(c) /\ Awaited(d) /\ request[c].tab = request[d].tab => c = d

TabsInStep ==
    /\ \A c \in Conns :
          Awaited(c) => tab[request[c].tab] \in
              IF conn[c] = "closed" THEN {"lost", "left"}
              ELSE IF c \in gone THEN {"left"} ELSE {"waiting"}
    /\ \A t \in Tabs :
          /\ tab[t] \in {"provider", "page"} => t \notin stored
          /\ tab[t] = "page" => implicit

KindsInStep ==
    \A c \in Conns : request[c] # None =>
        /\ request[c].kind = "code" => request[c].tab \in granted
        /\ request[c].kind \in {"bare", "idToken"} => implicit
        /\ pc[c] = "answer" /\ answer[c] = "page" => implicit
        /\ pc[c] \in {"load", "write", "rename"} => request[c].kind \in {"code", "idToken"}

AnswersTrue ==
    \A c \in Conns : Awaited(c) =>
        IF pc[c] = "answer" /\ answer[c] = "success"
        THEN request[c].tab \in stored /\ (implicit \/ request[c].tab \in granted)
        ELSE request[c].tab \notin stored

LoginInv == TypeOK /\ ToldTruth /\ OneRequestPerTab /\ TabsInStep /\ KindsInStep /\ AnswersTrue

(* A tab shows the verdict, or the user has left it. *)
SomeTabDone == \E t \in Tabs : tab[t] \in Verdicts \cup {"left"}

(* "you should see a message telling you that authentication was           *)
(* successful and the token should have appeared in your cf cli config"    *)
(* (oidc-login-plugin/README.md:99): the program does not end before a tab *)
(* has been told how the login went, unless the user left (the ConnState   *)
(* hook).                                                                  *)
EndsWithVerdict == main = "ended" => SomeTabDone

(* In the code flow the program does keep that promise.                    *)
CodeFlowEndsWithVerdict == ~implicit => EndsWithVerdict

(* What makes that inductive: whatever leads to the end, a connection      *)
(* whose answer is out first of all, and the request for an icon, which    *)
(* only a page that has been shown sends, come after the first verdict.    *)
VerdictBeforeIdle ==
    /\ ~implicit
    /\ \/ hooked # {}
       \/ main \in {"stopping", "shuttingDown", "ended"}
       \/ \E c \in Conns :
             \/ conn[c] = "idle" \/ pc[c] = "finish"
             \/ request[c] # None /\ request[c].kind = "otherPath"
    => SomeTabDone

(* What makes NobodyLeftWaiting inductive: a tab waits on an open          *)
(* connection only, and none is open at the end.                           *)
WaitersServed ==
    \A t \in Tabs : tab[t] = "waiting" =>
        \E c \in Conns : Waits(c) /\ request[c].tab = t /\ conn[c] # "none"

EndsUnconnected ==
    /\ main = "ended" => \A c \in Conns : conn[c] \in {"none", "closed"}
    /\ listening => main \in {"serving", "stopping"}

(* Once a connection has gone idle the program ends, whatever the other    *)
(* connections are doing, blocked in the hook or spare (the hook, done and *)
(* Shutdown).                                                              *)
LoginEnds == (\E c \in Conns : conn[c] = "idle") ~> (main = "ended")
===============================================================================
