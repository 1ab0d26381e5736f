--------------------------- MODULE OidcLoginProofs ----------------------------
(***************************************************************************)
(* Proofs about OidcLogin, for every set of tabs and of connections and    *)
(* for both flows: types, a shutdown that leaves nobody waiting, and       *)
(* answers that tell the truth about the token.                            *)
(***************************************************************************)
EXTENDS OidcLogin, TLAPS

LEMMA TypeInductive == TypeOK /\ [Next]_vars => TypeOK'
<1> SUFFICES ASSUME TypeOK, [Next]_vars PROVE TypeOK'
  OBVIOUS
<1> USE OidcLoginAssumption DEF TypeOK, Mains, ConnStates, Kinds, Verdicts
<1>1. CASE Setup
  BY <1>1 DEF Setup, runVars, serverVars, browserVars, fileVars
<1>2. CASE ListenAndServe
  BY <1>2 DEF ListenAndServe, runVars, serverVars, browserVars, fileVars
<1>3. CASE Shutdown
  BY <1>3 DEF Shutdown, runVars, serverVars, browserVars, fileVars
<1>4. CASE ShutdownReturns
  BY <1>4 DEF ShutdownReturns, runVars, serverVars, browserVars, fileVars
<1>5. ASSUME NEW c \in Conns, ReceiveDone(c) PROVE TypeOK'
  BY <1>5 DEF ReceiveDone, runVars, serverVars, browserVars, fileVars
<1>6. ASSUME NEW c \in Conns, ShutdownClose(c) PROVE TypeOK'
  BY <1>6 DEF ShutdownClose, Close, Shows, Waits, Awaited, runVars, serverVars, browserVars, fileVars
<1>7. ASSUME NEW c \in Conns, ReadRequest(c) PROVE TypeOK'
  BY <1>7 DEF ReadRequest, Running, runVars, serverVars, browserVars, fileVars
<1>23. ASSUME NEW c \in Conns, SetActive(c) PROVE TypeOK'
  BY <1>23 DEF SetActive, Running, runVars, serverVars, browserVars, fileVars
<1>8. ASSUME NEW c \in Conns, ServeHTTP(c) PROVE TypeOK'
  BY <1>8 DEF ServeHTTP, Say, GoTo, Running, runVars, serverVars, browserVars, fileVars
<1>9. ASSUME NEW c \in Conns, LoadConfig(c) PROVE TypeOK'
  BY <1>9 DEF LoadConfig, Say, GoTo, Running, runVars, serverVars, browserVars, fileVars
<1>10. ASSUME NEW c \in Conns, WriteConfig(c) PROVE TypeOK'
  BY <1>10 DEF WriteConfig, Say, GoTo, Running, runVars, serverVars, browserVars, fileVars
<1>11. ASSUME NEW c \in Conns, RenameConfig(c) PROVE TypeOK'
  BY <1>11 DEF RenameConfig, Say, Running, runVars, serverVars, browserVars, fileVars
<1>12. ASSUME NEW c \in Conns, Answer(c) PROVE TypeOK'
  BY <1>12 DEF Answer, Shows, Waits, Awaited, Close, Running, runVars, serverVars, browserVars, fileVars
<1>13. ASSUME NEW c \in Conns, GoIdle(c) PROVE TypeOK'
  BY <1>13 DEF GoIdle, Hooked, HookSends, Running, runVars, serverVars, browserVars, fileVars
<1>14. ASSUME NEW c \in Conns, ReadEOF(c) PROVE TypeOK'
  BY <1>14
  DEF ReadEOF, Hooked, HookSends, Close, Running, runVars, serverVars, browserVars,
      fileVars
<1>15. ASSUME NEW c \in Conns, Connect(c) PROVE TypeOK'
  BY <1>15 DEF Connect, Hooked, HookSends, runVars, serverVars, browserVars, fileVars
<1>16. ASSUME NEW c \in Conns, Leave(c) PROVE TypeOK'
  BY <1>16 DEF Leave, Shows, Waits, Awaited, Running, runVars, serverVars, browserVars, fileVars
<1>17. ASSUME NEW t \in Tabs, Refused(t) PROVE TypeOK'
  BY <1>17 DEF Refused, runVars, serverVars, browserVars, fileVars
<1>18. ASSUME NEW t \in Tabs, NEW c \in Conns, Redirect(t, c) PROVE TypeOK'
  BY <1>18 DEF Redirect, Send, Open, Running, runVars, serverVars, browserVars, fileVars
<1>19. ASSUME NEW t \in Tabs, NEW c \in Conns, RunScript(t, c) PROVE TypeOK'
  BY <1>19 DEF RunScript, Send, Open, runVars, serverVars, browserVars, fileVars
<1>20. ASSUME NEW t \in Tabs, NEW c \in Conns, AskIcon(t, c) PROVE TypeOK'
  BY <1>20 DEF AskIcon, Send, Open, runVars, serverVars, browserVars, fileVars
<1>21. CASE UNCHANGED vars
  BY <1>21 DEF vars, runVars, serverVars, browserVars, fileVars
<1>22. QED
  BY <1>1, <1>2, <1>3, <1>4, <1>5, <1>6, <1>7, <1>8, <1>9, <1>10, <1>11, <1>12, <1>13,
     <1>14, <1>15, <1>16, <1>17, <1>18, <1>19, <1>20, <1>21, <1>23
  DEF Next, Handler, Stop, Browser

LEMMA InitTypes == Init => TypeOK
<1> SUFFICES ASSUME Init PROVE TypeOK
  OBVIOUS
<1> USE DEF Init
<1>1. request \in [Conns -> {None} \cup [tab : Tabs, kind : Kinds]]
  OBVIOUS
<1>2. /\ conn \in [Conns -> ConnStates]
      /\ answer \in [Conns -> Verdicts \cup {"page", "notFound"}]
  BY DEF ConnStates, Verdicts
<1>3. QED
  BY <1>1, <1>2 DEF TypeOK, Mains, Verdicts

(***************************************************************************)
(* The plugin's state has its types in every run.                          *)
(***************************************************************************)
THEOREM LoginTypeCorrect == Spec => []TypeOK
<1>1. QED
  BY InitTypes, TypeInductive, PTL DEF Spec

-------------------------------------------------------------------------------
LEMMA UnconnectedInductive ==
  TypeOK /\ EndsUnconnected /\ [Next]_vars => EndsUnconnected'
<1> SUFFICES ASSUME TypeOK, EndsUnconnected, [Next]_vars PROVE EndsUnconnected'
  OBVIOUS
<1> USE DEF TypeOK, EndsUnconnected, Mains, ConnStates
<1>1. CASE Setup
  BY <1>1 DEF Setup, runVars, serverVars, browserVars, fileVars
<1>2. CASE ListenAndServe
  BY <1>2 DEF ListenAndServe, runVars, serverVars, browserVars, fileVars
<1>3. CASE Shutdown
  BY <1>3 DEF Shutdown, runVars, serverVars, browserVars, fileVars
<1>4. CASE ShutdownReturns
  BY <1>4 DEF ShutdownReturns, runVars, serverVars, browserVars, fileVars
<1>5. ASSUME NEW c \in Conns, ReceiveDone(c) PROVE EndsUnconnected'
  BY <1>5 DEF ReceiveDone, runVars, serverVars, browserVars, fileVars
<1>6. ASSUME NEW c \in Conns, ShutdownClose(c) PROVE EndsUnconnected'
  BY <1>6 DEF ShutdownClose, Close, Shows, Waits, Awaited, runVars, serverVars, browserVars, fileVars
<1>7. ASSUME NEW c \in Conns, ReadRequest(c) PROVE EndsUnconnected'
  BY <1>7 DEF ReadRequest, Running, runVars, serverVars, browserVars, fileVars
<1>23. ASSUME NEW c \in Conns, SetActive(c) PROVE EndsUnconnected'
  BY <1>23 DEF SetActive, Running, runVars, serverVars, browserVars, fileVars
<1>8. ASSUME NEW c \in Conns, ServeHTTP(c) PROVE EndsUnconnected'
  BY <1>8 DEF ServeHTTP, Say, GoTo, Running, runVars, serverVars, browserVars, fileVars
<1>9. ASSUME NEW c \in Conns, LoadConfig(c) PROVE EndsUnconnected'
  BY <1>9 DEF LoadConfig, Say, GoTo, Running, runVars, serverVars, browserVars, fileVars
<1>10. ASSUME NEW c \in Conns, WriteConfig(c) PROVE EndsUnconnected'
  BY <1>10 DEF WriteConfig, Say, GoTo, Running, runVars, serverVars, browserVars, fileVars
<1>11. ASSUME NEW c \in Conns, RenameConfig(c) PROVE EndsUnconnected'
  BY <1>11 DEF RenameConfig, Say, Running, runVars, serverVars, browserVars, fileVars
<1>12. ASSUME NEW c \in Conns, Answer(c) PROVE EndsUnconnected'
  BY <1>12 DEF Answer, Shows, Waits, Awaited, Close, Running, runVars, serverVars, browserVars, fileVars
<1>13. ASSUME NEW c \in Conns, GoIdle(c) PROVE EndsUnconnected'
  BY <1>13 DEF GoIdle, Hooked, HookSends, Running, runVars, serverVars, browserVars, fileVars
<1>14. ASSUME NEW c \in Conns, ReadEOF(c) PROVE EndsUnconnected'
  BY <1>14
  DEF ReadEOF, Hooked, HookSends, Close, Running, runVars, serverVars, browserVars,
      fileVars
<1>15. ASSUME NEW c \in Conns, Connect(c) PROVE EndsUnconnected'
  BY <1>15 DEF Connect, Hooked, HookSends, runVars, serverVars, browserVars, fileVars
<1>16. ASSUME NEW c \in Conns, Leave(c) PROVE EndsUnconnected'
  BY <1>16 DEF Leave, Shows, Waits, Awaited, Running, runVars, serverVars, browserVars, fileVars
<1>17. ASSUME NEW t \in Tabs, Refused(t) PROVE EndsUnconnected'
  BY <1>17 DEF Refused, runVars, serverVars, browserVars, fileVars
<1>18. ASSUME NEW t \in Tabs, NEW c \in Conns, Redirect(t, c) PROVE EndsUnconnected'
  BY <1>18 DEF Redirect, Send, Open, Running, runVars, serverVars, browserVars, fileVars
<1>19. ASSUME NEW t \in Tabs, NEW c \in Conns, RunScript(t, c) PROVE EndsUnconnected'
  BY <1>19 DEF RunScript, Send, Open, runVars, serverVars, browserVars, fileVars
<1>20. ASSUME NEW t \in Tabs, NEW c \in Conns, AskIcon(t, c) PROVE EndsUnconnected'
  BY <1>20 DEF AskIcon, Send, Open, runVars, serverVars, browserVars, fileVars
<1>21. CASE UNCHANGED vars
  BY <1>21 DEF vars, runVars, serverVars, browserVars, fileVars
<1>22. QED
  BY <1>1, <1>2, <1>3, <1>4, <1>5, <1>6, <1>7, <1>8, <1>9, <1>10, <1>11, <1>12, <1>13,
     <1>14, <1>15, <1>16, <1>17, <1>18, <1>19, <1>20, <1>21, <1>23
  DEF Next, Handler, Stop, Browser

-------------------------------------------------------------------------------
LEMMA AnswersInductive == LoginInv /\ [Next]_vars => LoginInv'
<1> SUFFICES ASSUME LoginInv, [Next]_vars PROVE LoginInv'
  OBVIOUS
<1> DEFINE Told == ToldTruth /\ OneRequestPerTab /\ TabsInStep /\ KindsInStep /\ AnswersTrue
<1>a. TypeOK /\ TypeOK' /\ Told
  BY TypeInductive DEF LoginInv
<1> SUFFICES Told'
  BY <1>a DEF LoginInv
<1> USE OidcLoginAssumption
     DEF TypeOK, Verdicts, Kinds, ToldTruth, OneRequestPerTab, TabsInStep, KindsInStep,
         AnswersTrue, Awaited, Waits
<1>1. CASE Setup
  BY <1>1, <1>a DEF Setup, runVars, serverVars, browserVars, fileVars
<1>2. CASE ListenAndServe
  BY <1>2, <1>a DEF ListenAndServe, runVars, serverVars, browserVars, fileVars
<1>3. CASE Shutdown
  BY <1>3, <1>a DEF Shutdown, runVars, serverVars, browserVars, fileVars
<1>4. CASE ShutdownReturns
  BY <1>4, <1>a DEF ShutdownReturns, runVars, serverVars, browserVars, fileVars
<1>5. ASSUME NEW c \in Conns, ReceiveDone(c) PROVE Told'
  BY <1>5, <1>a DEF ReceiveDone, runVars, serverVars, browserVars, fileVars
<1>6. ASSUME NEW c \in Conns, ShutdownClose(c) PROVE Told'
  BY <1>6, <1>a DEF ShutdownClose, Close, Shows, Waits, Awaited, runVars, serverVars, browserVars, fileVars
<1>7. ASSUME NEW c \in Conns, ReadRequest(c) PROVE Told'
  BY <1>7, <1>a DEF ReadRequest, Running, runVars, serverVars, browserVars, fileVars
<1>23. ASSUME NEW c \in Conns, SetActive(c) PROVE Told'
  BY <1>23, <1>a DEF SetActive, Running, runVars, serverVars, browserVars, fileVars
<1>8. ASSUME NEW c \in Conns, ServeHTTP(c) PROVE Told'
  BY <1>8, <1>a DEF ServeHTTP, Say, GoTo, Running, runVars, serverVars, browserVars, fileVars
<1>9. ASSUME NEW c \in Conns, LoadConfig(c) PROVE Told'
  BY <1>9, <1>a DEF LoadConfig, Say, GoTo, Running, runVars, serverVars, browserVars, fileVars
<1>10. ASSUME NEW c \in Conns, WriteConfig(c) PROVE Told'
  BY <1>10, <1>a DEF WriteConfig, Say, GoTo, Running, runVars, serverVars, browserVars, fileVars
<1>11. ASSUME NEW c \in Conns, RenameConfig(c) PROVE Told'
  BY <1>11, <1>a DEF RenameConfig, Say, Running, runVars, serverVars, browserVars, fileVars
<1>12. ASSUME NEW c \in Conns, Answer(c) PROVE Told'
  <2>1. /\ request' = [request EXCEPT ![c] = None]
        /\ pc' \in {[pc EXCEPT ![c] = "read"], [pc EXCEPT ![c] = "finish"]}
        /\ conn' \in {conn, [conn EXCEPT ![c] = "closed"]}
        /\ answer' = [answer EXCEPT ![c] = "notFound"]
        /\ UNCHANGED <<implicit, gone, granted, stored>>
    BY <1>12 DEF Answer, Close, runVars, fileVars
  <2>2. pc[c] = "answer" /\ Shows(c, answer[c])
    BY <1>12 DEF Answer
  <2>3. OneRequestPerTab'
    BY <2>1, <1>a
  <2>4. KindsInStep' /\ AnswersTrue'
    BY <2>1, <1>a
  <2>5. ToldTruth' /\ TabsInStep'
    <3>1. CASE Waits(c)
      <4>1. tab' = [tab EXCEPT ![request[c].tab] = answer[c]] /\ request[c].tab \in Tabs
        BY <2>2, <3>1, <1>a DEF Shows
      <4>2. /\ answer[c] = "success" =>
                 request[c].tab \in stored /\ (implicit \/ request[c].tab \in granted)
            /\ answer[c] # "success" => request[c].tab \notin stored
            /\ answer[c] = "page" => implicit
        BY <2>2, <3>1, <1>a
      <4>3. \A d \in Conns : Awaited(d) /\ d # c => request[d].tab # request[c].tab
        BY <3>1, <1>a
      <4>4. ToldTruth'
        BY <2>1, <4>1, <4>2, <1>a
      <4>5. TabsInStep'
        BY <2>1, <4>1, <4>2, <4>3, <1>a
      <4>6. QED
        BY <4>4, <4>5
    <3>2. CASE ~Waits(c)
      <4>1. tab' = tab
        BY <2>2, <3>2 DEF Shows
      <4>2. QED
        BY <2>1, <4>1, <1>a
    <3>3. QED
      BY <3>1, <3>2
  <2>6. QED
    BY <2>3, <2>4, <2>5
<1>13. ASSUME NEW c \in Conns, GoIdle(c) PROVE Told'
  BY <1>13, <1>a DEF GoIdle, Hooked, HookSends, Running, runVars, serverVars, browserVars, fileVars
<1>14. ASSUME NEW c \in Conns, ReadEOF(c) PROVE Told'
  BY <1>14, <1>a
  DEF ReadEOF, Hooked, HookSends, Close, Running, runVars, serverVars, browserVars,
      fileVars
<1>15. ASSUME NEW c \in Conns, Connect(c) PROVE Told'
  BY <1>15, <1>a DEF Connect, Hooked, HookSends, runVars, serverVars, browserVars, fileVars
<1>16. ASSUME NEW c \in Conns, Leave(c) PROVE Told'
  BY <1>16, <1>a DEF Leave, Shows, Running, runVars, serverVars, browserVars, fileVars
<1>17. ASSUME NEW t \in Tabs, Refused(t) PROVE Told'
  BY <1>17, <1>a DEF Refused, runVars, serverVars, browserVars, fileVars
<1>18. ASSUME NEW t \in Tabs, NEW c \in Conns, Redirect(t, c) PROVE Told'
  <2>1. PICK kind \in {"bare", "code", "refused"} :
             /\ Send(t, c, kind)
             /\ kind = "bare" => implicit
             /\ kind = "code" => t \in granted'
             /\ granted \subseteq granted'
    BY <1>18 DEF Redirect
  <2>2. /\ request' = [request EXCEPT ![c] = [tab |-> t, kind |-> kind]]
        /\ tab' = [tab EXCEPT ![t] = "waiting"]
        /\ UNCHANGED <<implicit, conn, pc, answer, gone, stored>>
    BY <2>1 DEF Send, runVars, serverVars, fileVars
  <2>3. /\ request[c] = None /\ c \notin gone /\ conn[c] \notin {"none", "closed"}
        /\ tab[t] = "provider" /\ t \notin stored
    BY <1>18, <1>a DEF Redirect, Open
  <2>4. /\ request'[c] = [tab |-> t, kind |-> kind]
        /\ \A d \in Conns : d # c => request'[d] = request[d]
    BY <1>a, <2>2
  <2>5. \A d \in Conns : Awaited(d) => request[d].tab # t
    BY <1>a, <2>3
  <2>6. pc[c] \in {"read", "finish"}
    BY <1>a, <2>3
  <2>7. ToldTruth' /\ OneRequestPerTab'
    BY <1>a, <2>1, <2>2, <2>3, <2>4, <2>5
  <2>8. TabsInStep'
    BY <1>a, <2>1, <2>2, <2>3, <2>4, <2>5
  <2>9. KindsInStep' /\ AnswersTrue'
    BY <1>a, <2>1, <2>2, <2>3, <2>4, <2>5, <2>6
  <2>10. QED
    BY <2>7, <2>8, <2>9
<1>19. ASSUME NEW t \in Tabs, NEW c \in Conns, RunScript(t, c) PROVE Told'
  BY <1>19, <1>a DEF RunScript, Send, Open, runVars, serverVars, browserVars, fileVars
<1>20. ASSUME NEW t \in Tabs, NEW c \in Conns, AskIcon(t, c) PROVE Told'
  BY <1>20, <1>a DEF AskIcon, Send, Open, runVars, serverVars, browserVars, fileVars
<1>21. CASE UNCHANGED vars
  BY <1>21, <1>a DEF vars, runVars, serverVars, browserVars, fileVars
<1>22. QED
  BY <1>a, <1>1, <1>2, <1>3, <1>4, <1>5, <1>6, <1>7, <1>8, <1>9, <1>10, <1>11, <1>12,
     <1>13, <1>14, <1>15, <1>16, <1>17, <1>18, <1>19, <1>20, <1>21, <1>23
  DEF Next, Handler, Stop, Browser

(***************************************************************************)
(* Whoever is told that the login succeeded has a stored token, granted by *)
(* the provider in the code flow; whoever is told of an error has none.    *)
(***************************************************************************)
THEOREM AnswersTellTheTruth == Spec => []ToldTruth
<1>1. Init => LoginInv
  BY InitTypes
  DEF Init, LoginInv, ToldTruth, OneRequestPerTab, TabsInStep, KindsInStep, AnswersTrue, Awaited
<1>2. LoginInv => ToldTruth
  BY DEF LoginInv
<1>3. QED
  BY <1>1, <1>2, AnswersInductive, PTL DEF Spec
-------------------------------------------------------------------------------
(* No step leaves a tab waiting without an open connection that owes it an *)
(* answer. *)
LEMMA WaitersInductive ==
  LoginInv /\ WaitersServed /\ [Next]_vars => WaitersServed'
<1> SUFFICES ASSUME LoginInv, WaitersServed, [Next]_vars PROVE WaitersServed'
  OBVIOUS
<1>a. TypeOK /\ TypeOK'
  BY TypeInductive DEF LoginInv
<1> USE DEF TypeOK, WaitersServed, Waits, Awaited
<1>1. CASE Setup
  BY <1>1, <1>a DEF Setup, runVars, serverVars, browserVars, fileVars
<1>2. CASE ListenAndServe
  BY <1>2, <1>a DEF ListenAndServe, runVars, serverVars, browserVars, fileVars
<1>3. CASE Shutdown
  BY <1>3, <1>a DEF Shutdown, runVars, serverVars, browserVars, fileVars
<1>4. CASE ShutdownReturns
  BY <1>4, <1>a DEF ShutdownReturns, runVars, serverVars, browserVars, fileVars
<1>5. ASSUME NEW c \in Conns, ReceiveDone(c) PROVE WaitersServed'
  BY <1>5, <1>a DEF ReceiveDone, runVars, serverVars, browserVars, fileVars
<1>6. ASSUME NEW c \in Conns, ShutdownClose(c) PROVE WaitersServed'
  BY <1>6, <1>a DEF ShutdownClose, Close, Shows, runVars, serverVars, browserVars, fileVars
<1>7. ASSUME NEW c \in Conns, ReadRequest(c) PROVE WaitersServed'
  BY <1>7, <1>a DEF ReadRequest, runVars, serverVars, browserVars, fileVars
<1>8. ASSUME NEW c \in Conns, SetActive(c) PROVE WaitersServed'
  BY <1>8, <1>a DEF SetActive, runVars, serverVars, browserVars, fileVars
<1>9. ASSUME NEW c \in Conns, ServeHTTP(c) PROVE WaitersServed'
  BY <1>9, <1>a DEF ServeHTTP, Say, GoTo, runVars, serverVars, browserVars, fileVars
<1>10. ASSUME NEW c \in Conns, LoadConfig(c) PROVE WaitersServed'
  BY <1>10, <1>a DEF LoadConfig, Say, GoTo, runVars, serverVars, browserVars, fileVars
<1>11. ASSUME NEW c \in Conns, WriteConfig(c) PROVE WaitersServed'
  BY <1>11, <1>a DEF WriteConfig, Say, GoTo, runVars, serverVars, browserVars, fileVars
<1>12. ASSUME NEW c \in Conns, RenameConfig(c) PROVE WaitersServed'
  BY <1>12, <1>a DEF RenameConfig, Say, runVars, serverVars, browserVars, fileVars
<1>13. ASSUME NEW c \in Conns, Answer(c) PROVE WaitersServed'
  BY <1>13, <1>a DEF Answer, Shows, Close, Verdicts, runVars, serverVars, browserVars, fileVars
<1>14. ASSUME NEW c \in Conns, GoIdle(c) PROVE WaitersServed'
  BY <1>14, <1>a DEF GoIdle, Hooked, runVars, serverVars, browserVars, fileVars
<1>15. ASSUME NEW c \in Conns, ReadEOF(c) PROVE WaitersServed'
  BY <1>15, <1>a DEF ReadEOF, Hooked, Close, runVars, serverVars, browserVars, fileVars
<1>16. ASSUME NEW c \in Conns, Connect(c) PROVE WaitersServed'
  BY <1>16, <1>a DEF Connect, Hooked, runVars, serverVars, browserVars, fileVars
<1>17. ASSUME NEW c \in Conns, Leave(c) PROVE WaitersServed'
  BY <1>17, <1>a DEF Leave, Shows, runVars, serverVars, browserVars, fileVars
<1>18. ASSUME NEW t \in Tabs, Refused(t) PROVE WaitersServed'
  BY <1>18, <1>a DEF Refused, runVars, serverVars, browserVars, fileVars
<1>19. ASSUME NEW t \in Tabs, NEW c \in Conns, Redirect(t, c) \/ RunScript(t, c) \/ AskIcon(t, c)
       PROVE WaitersServed'
  <2>1. PICK kind \in Kinds : Send(t, c, kind)
    BY <1>19 DEF Redirect, RunScript, AskIcon, Kinds
  <2>2. conn[c] \notin {"none", "closed"} /\ c \notin gone /\ request[c] = None
    BY <1>19 DEF Redirect, RunScript, AskIcon, Open
  <2>3. request' = [request EXCEPT ![c] = [tab |-> t, kind |-> kind]]
        /\ tab' = (IF kind = "otherPath" THEN tab ELSE [tab EXCEPT ![t] = "waiting"])
        /\ UNCHANGED <<conn, gone>>
    BY <2>1 DEF Send, serverVars
  <2>4. ASSUME NEW u \in Tabs, tab'[u] = "waiting"
        PROVE \E d \in Conns : Waits(d)' /\ request'[d].tab = u /\ conn'[d] # "none"
    <3>1. CASE u = t /\ kind # "otherPath"
      <4>1. request'[c] = [tab |-> t, kind |-> kind] /\ request'[c] # None
        BY <1>a, <2>3, OidcLoginAssumption
      <4>2. QED
        BY <2>2, <2>3, <3>1, <4>1
    <3>2. CASE u # t \/ kind = "otherPath"
      <4>1. PICK d \in Conns : Waits(d) /\ request[d].tab = u /\ conn[d] # "none"
        BY <2>3, <2>4, <3>2
      <4>2. request'[d] = request[d]
        BY <2>2, <2>3, <4>1
      <4>3. QED
        BY <2>3, <4>1, <4>2
    <3>3. QED
      BY <3>1, <3>2
  <2>5. QED
    BY <2>4
<1>22. CASE UNCHANGED vars
  BY <1>22 DEF vars, runVars, serverVars, browserVars, fileVars
<1>23. QED
  BY <1>1, <1>2, <1>3, <1>4, <1>5, <1>6, <1>7, <1>8, <1>9, <1>10, <1>11,
     <1>12, <1>13, <1>14, <1>15, <1>16, <1>17, <1>18, <1>19, <1>22
  DEF Next, Handler, Stop, Browser

(***************************************************************************)
(* When the program has ended every tab that waited for it has its answer  *)
(* or has seen its connection closed, the tabs of handlers that the end    *)
(* cuts short included (Shutdown returns when no connection is left, and a *)
(* tab waits on an open one only).                                         *)
(***************************************************************************)
THEOREM ShutdownLeavesNobodyWaiting == Spec => []NobodyLeftWaiting
<1>1. Init => LoginInv
  BY InitTypes
  DEF Init, LoginInv, ToldTruth, OneRequestPerTab, TabsInStep, KindsInStep, AnswersTrue, Awaited
<1>2. Init => WaitersServed /\ EndsUnconnected
  BY DEF Init, WaitersServed, EndsUnconnected
<1>3. LoginInv /\ WaitersServed /\ EndsUnconnected => NobodyLeftWaiting
  BY DEF LoginInv, TypeOK, TabsInStep, WaitersServed, Waits, EndsUnconnected, NobodyLeftWaiting
<1>4. LoginInv => TypeOK
  BY DEF LoginInv
<1>5. QED
  BY <1>1, <1>2, <1>3, <1>4, AnswersInductive, WaitersInductive, UnconnectedInductive, PTL
  DEF Spec

-------------------------------------------------------------------------------
(* What a tab shows for good: nothing waits to change it.                  *)
LEMMA DoneStaysDone ==
  LoginInv /\ ~implicit /\ SomeTabDone /\ [Next]_vars => SomeTabDone'
<1> SUFFICES ASSUME LoginInv, ~implicit, SomeTabDone, [Next]_vars PROVE SomeTabDone'
  OBVIOUS
<1>1. PICK t \in Tabs : tab[t] \in Verdicts \cup {"left"}
  BY DEF SomeTabDone
<1>2. tab \in [Tabs -> Verdicts \cup {"provider", "waiting", "page", "lost", "left"}]
  BY DEF LoginInv, TypeOK
<1>3. \A c \in Conns : Waits(c) => request[c].tab # t
  BY <1>1 DEF LoginInv, TabsInStep, Verdicts, Waits
<1>4. ASSUME NEW c \in Conns, NEW s, Shows(c, s) PROVE tab'[t] = tab[t]
  BY <1>2, <1>3, <1>4 DEF Shows
<1>5. ASSUME NEW u \in Tabs, NEW c \in Conns, Redirect(u, c) \/ RunScript(u, c) \/ AskIcon(u, c)
      PROVE tab'[t] = tab[t]
  BY <1>1, <1>2, <1>5 DEF Redirect, RunScript, AskIcon, Send, Verdicts
<1>6. tab'[t] = tab[t]
  <2>1. ASSUME NEW c \in Conns, ShutdownClose(c) \/ Answer(c) \/ Leave(c)
        PROVE tab'[t] = tab[t]
    BY <2>1, <1>4 DEF ShutdownClose, Answer, Leave
  <2>2. ASSUME NEW u \in Tabs, Refused(u) PROVE tab'[t] = tab[t]
    BY <1>1, <1>2, <2>2 DEF Refused, Verdicts
  <2>3. ASSUME UNCHANGED browserVars PROVE tab'[t] = tab[t]
    BY <2>3 DEF browserVars
  <2>4. UNCHANGED vars => UNCHANGED browserVars
    BY DEF vars, browserVars
  <2>5. Setup \/ ListenAndServe \/ Shutdown \/ ShutdownReturns => UNCHANGED browserVars
    BY DEF Setup, ListenAndServe, Shutdown, ShutdownReturns, browserVars
  <2>6. ASSUME NEW c \in Conns,
               \/ ReceiveDone(c) \/ ReadRequest(c) \/ SetActive(c) \/ ServeHTTP(c) \/ LoadConfig(c)
               \/ WriteConfig(c) \/ RenameConfig(c) \/ GoIdle(c) \/ ReadEOF(c) \/ Connect(c)
        PROVE UNCHANGED browserVars
    BY <2>6
    DEF ReceiveDone, ReadRequest, SetActive, ServeHTTP, LoadConfig, WriteConfig, RenameConfig, GoIdle,
        ReadEOF, Connect, browserVars
  <2>7. QED
    BY <2>1, <2>2, <2>3, <2>4, <2>5, <2>6, <1>5 DEF Next, Handler, Stop, Browser
<1>7. QED
  BY <1>1, <1>6 DEF SomeTabDone

(* In the code flow every answer that a tab waits for is a verdict.        *)
LEMMA AnswerIsVerdict ==
  ASSUME LoginInv, ~implicit, NEW c \in Conns, Answer(c),
         request[c].kind = "otherPath" \/ conn[c] = "closed" => SomeTabDone
  PROVE  SomeTabDone'
<1>1. pc[c] = "answer" /\ request[c] # None /\ Shows(c, answer[c])
  BY DEF Answer, LoginInv, TypeOK
<1>2. CASE ~Waits(c)
  <2>1. UNCHANGED tab
    BY <1>1, <1>2 DEF Shows
  <2>2. CASE Awaited(c) /\ conn[c] # "closed"
    <3>1. c \in gone
      BY <1>2, <2>2 DEF Waits
    <3>2. tab[request[c].tab] = "left" /\ request[c].tab \in Tabs
      BY <1>1, <2>2, <3>1 DEF LoginInv, TypeOK, TabsInStep
    <3>3. QED
      BY <2>1, <3>2 DEF SomeTabDone
  <2>3. CASE ~(Awaited(c) /\ conn[c] # "closed")
    BY <1>1, <2>1, <2>3 DEF Awaited, SomeTabDone
  <2>4. QED
    BY <2>2, <2>3
<1>3. CASE Waits(c)
  <2>1. answer[c] \in Verdicts /\ request[c].tab \in Tabs
    BY <1>1, <1>3 DEF LoginInv, TypeOK, KindsInStep, Waits, Awaited
  <2>2. tab' = [tab EXCEPT ![request[c].tab] = answer[c]]
    BY <1>1, <1>3 DEF Shows
  <2>3. QED
    BY <2>1, <2>2 DEF LoginInv, TypeOK, SomeTabDone
<1>4. QED
  BY <1>2, <1>3

LEMMA VerdictInductive ==
  LoginInv /\ VerdictBeforeIdle /\ [Next]_vars => VerdictBeforeIdle'
<1> SUFFICES ASSUME LoginInv, VerdictBeforeIdle, [Next]_vars PROVE VerdictBeforeIdle'
  OBVIOUS
<1>1. CASE implicit \/ SomeTabDone
  <2>1. implicit' = implicit
    BY DEF Next, Handler, Stop, Browser, Setup, ListenAndServe, Shutdown, ShutdownReturns,
         ReceiveDone, ShutdownClose, ReadRequest, SetActive, ServeHTTP, LoadConfig, WriteConfig,
         RenameConfig, Answer, GoIdle, ReadEOF, Connect, Leave, Refused, Redirect,
         RunScript, AskIcon, Send, vars, runVars
  <2>2. QED
    BY <1>1, <2>1, DoneStaysDone DEF VerdictBeforeIdle
<1>2. CASE ~implicit /\ ~SomeTabDone
  <2>1. /\ hooked = {} /\ main \notin {"stopping", "shuttingDown", "ended"}
        /\ \A c \in Conns : /\ conn[c] # "idle" /\ pc[c] # "finish"
                            /\ request[c] # None => request[c].kind # "otherPath"
    BY <1>2 DEF VerdictBeforeIdle
  <2> USE DEF VerdictBeforeIdle, LoginInv, TypeOK
  <2>2. CASE Setup \/ ListenAndServe \/ UNCHANGED vars
    BY <2>1, <2>2 DEF Setup, ListenAndServe, vars, runVars, serverVars, browserVars
  <2>3. CASE Shutdown \/ ShutdownReturns
    BY <2>1, <2>3 DEF Shutdown, ShutdownReturns
  <2>4. ASSUME NEW c \in Conns, ReceiveDone(c) PROVE VerdictBeforeIdle'
    BY <1>2, <2>1, <2>4 DEF ReceiveDone
  <2>5. ASSUME NEW c \in Conns, ShutdownClose(c) PROVE VerdictBeforeIdle'
    BY <1>2, <2>1, <2>5 DEF ShutdownClose
  <2>6. ASSUME NEW c \in Conns, ReadRequest(c) PROVE VerdictBeforeIdle'
    BY <1>2, <2>1, <2>6 DEF ReadRequest, runVars, browserVars
  <2>21. ASSUME NEW c \in Conns, SetActive(c) PROVE VerdictBeforeIdle'
    BY <1>2, <2>1, <2>21 DEF SetActive, runVars, browserVars
  <2>7. ASSUME NEW c \in Conns, ServeHTTP(c) PROVE VerdictBeforeIdle'
    BY <1>2, <2>1, <2>7 DEF ServeHTTP, Say, GoTo, runVars
  <2>8. ASSUME NEW c \in Conns, LoadConfig(c) PROVE VerdictBeforeIdle'
    BY <1>2, <2>1, <2>8 DEF LoadConfig, Say, GoTo, runVars
  <2>9. ASSUME NEW c \in Conns, WriteConfig(c) PROVE VerdictBeforeIdle'
    BY <1>2, <2>1, <2>9 DEF WriteConfig, Say, GoTo, runVars
  <2>10. ASSUME NEW c \in Conns, RenameConfig(c) PROVE VerdictBeforeIdle'
    BY <1>2, <2>1, <2>10 DEF RenameConfig, Say, runVars
  <2>11. ASSUME NEW c \in Conns, Answer(c) PROVE VerdictBeforeIdle'
    <3>1. conn[c] # "closed" /\ request[c] # None
      BY <2>1, <2>11 DEF Answer
    <3>2. SomeTabDone'
      BY <1>2, <2>1, <2>11, <3>1, AnswerIsVerdict
    <3>3. QED
      BY <3>2
  <2>12. ASSUME NEW c \in Conns, GoIdle(c) PROVE VerdictBeforeIdle'
    BY <1>2, <2>1, <2>12 DEF GoIdle
  <2>13. ASSUME NEW c \in Conns, ReadEOF(c) PROVE VerdictBeforeIdle'
    BY <1>2, <2>1, <2>13 DEF ReadEOF, Hooked, HookSends, Close, runVars
  <2>14. ASSUME NEW c \in Conns, Connect(c) PROVE VerdictBeforeIdle'
    BY <1>2, <2>1, <2>14 DEF Connect, Hooked, HookSends, runVars
  <2>15. ASSUME NEW c \in Conns, Leave(c) PROVE VerdictBeforeIdle'
    BY <1>2, <2>1, <2>15 DEF Leave, runVars, serverVars
  <2>16. ASSUME NEW t \in Tabs, Refused(t) PROVE VerdictBeforeIdle'
    BY <1>2, <2>1, <2>16 DEF Refused, runVars, serverVars
  <2>17. ASSUME NEW t \in Tabs, NEW c \in Conns, Redirect(t, c) PROVE VerdictBeforeIdle'
    BY <1>2, <2>1, <2>17 DEF Redirect, Send, runVars, serverVars
  <2>18. ASSUME NEW t \in Tabs, NEW c \in Conns, RunScript(t, c) PROVE VerdictBeforeIdle'
    BY <1>2, <2>1, <2>18 DEF RunScript, Send, runVars, serverVars, KindsInStep, TabsInStep
  <2>19. ASSUME NEW t \in Tabs, NEW c \in Conns, AskIcon(t, c) PROVE VerdictBeforeIdle'
    BY <1>2, <2>1, <2>19 DEF AskIcon, SomeTabDone, TabsInStep, Verdicts
  <2>20. QED
    BY <2>2, <2>3, <2>4, <2>5, <2>6, <2>7, <2>8, <2>9, <2>10, <2>11, <2>12, <2>13, <2>14, <2>15, <2>16, <2>17, <2>18, <2>19, <2>21
    DEF Next, Handler, Stop, Browser
<1>3. QED
  BY <1>1, <1>2

(***************************************************************************)
(* In the code flow the program does not end before a tab has been told    *)
(* how the login went, unless the user left one (the ConnState hook fires  *)
(* only when a connection goes idle, and the first to go idle has answered *)
(* the tab that waited for it).                                            *)
(***************************************************************************)
THEOREM CodeFlowGivesVerdict == Spec => []CodeFlowEndsWithVerdict
<1>1. Init => LoginInv
  BY InitTypes
  DEF Init, LoginInv, ToldTruth, OneRequestPerTab, TabsInStep, KindsInStep, AnswersTrue, Awaited
<1>2. Init => VerdictBeforeIdle
  BY DEF Init, VerdictBeforeIdle
<1>3. VerdictBeforeIdle => CodeFlowEndsWithVerdict
  BY DEF VerdictBeforeIdle, CodeFlowEndsWithVerdict, EndsWithVerdict
<1>4. QED
  BY <1>1, <1>2, <1>3, AnswersInductive, VerdictInductive, PTL DEF Spec
===============================================================================
