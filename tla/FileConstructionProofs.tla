------------------------ MODULE FileConstructionProofs ------------------------
(* What FileConstruction guarantees for any threads, paths, plans, numbers *)
(* of calls and numbers of entries other programs create.                  *)
EXTENDS FileConstruction, SequenceTheorems, TLAPS

-----------------------------------------------------------------------------
(* Paths and plans. *)

(* The first part of a path, up to any of its names, is an entry.          *)
LEMMA PrefixIsEntry ==
    ASSUME NEW path \in Paths, NEW d \in Nat, d < Len(path)
    PROVE  SubSeq(path, 1, d + 1) \in Entries
<1>1. Len(path) \in Nat
  BY FileConstructionConstants
<1>2. d + 1 \in 1..Len(path)
  BY <1>1
<1> QED  BY <1>2 DEF Entries

(* A path is not empty, and is an entry itself.                            *)
LEMMA PathIsEntry ==
    ASSUME NEW path \in Paths
    PROVE  Len(path) \in Nat \ {0} /\ SubSeq(path, 1, Len(path)) = path /\ path \in Entries
<1> DEFINE Name == UNION {Range(q) : q \in Paths}
<1>1. path \in Seq(Name) /\ path # <<>>
  BY FileConstructionConstants
<1> HIDE DEF Name
<1>2. Len(path) \in Nat \ {0}
  BY <1>1
<1>3. SubSeq(path, 1, Len(path)) = path
  BY <1>1
<1>4. Len(path) - 1 \in Nat /\ Len(path) - 1 < Len(path) /\ Len(path) - 1 + 1 = Len(path)
  BY <1>2
<1>5. SubSeq(path, 1, Len(path) - 1 + 1) \in Entries
  BY <1>4, PrefixIsEntry
<1> QED  BY <1>2, <1>3, <1>4, <1>5

(* A plan has at least one action and each names a path.                   *)
LEMMA PlanShape ==
    ASSUME NEW q \in Requests
    PROVE  /\ Len(q.plan) \in 1..MaxActions
           /\ \A i \in 1..Len(q.plan) : q.plan[i] \in Paths
<1>1. PICK n \in 1..MaxActions : q.plan \in [1..n -> Paths]
  BY DEF Requests, Plans
<1>2. n \in Nat /\ DOMAIN q.plan = 1..n /\ q.plan \in Seq(Paths)
  BY <1>1, FileConstructionConstants
<1>3. Len(q.plan) = n
  BY <1>1, <1>2
<1> QED  BY <1>1, <1>3

(* A call that creates files works on an entry of its action's path.       *)
LEMMA AtEntry ==
    ASSUME TypeOK, NEW t \in Thread, pc[t] \in Creating
    PROVE  /\ request[t] \in Requests
           /\ Len(request[t].plan) \in 1..MaxActions
           /\ Path(t) \in Paths /\ Len(Path(t)) \in Nat \ {0}
           /\ Path(t) \in Entries /\ Entry(t) \in Entries
           /\ Call(t) \in CallId
<1>1. request[t] \in Requests /\ OnPath(t) /\ calls[t] \in 1..MaxCalls
  BY FileConstructionConstants DEF TypeOK, Creating
<1>2. Path(t) \in Paths /\ Len(request[t].plan) \in 1..MaxActions
  BY <1>1, PlanShape DEF TypeOK, OnPath, Path
<1>3. Entry(t) \in Entries
  BY <1>1, <1>2, PrefixIsEntry DEF TypeOK, OnPath, Entry
<1> QED  BY <1>1, <1>2, <1>3, PathIsEntry DEF CallId, Call

-----------------------------------------------------------------------------
(* Types. *)

(* Before the handle is acquired everything is well typed.                 *)
LEMMA TypeInit == Init => TypeOK
<1> SUFFICES ASSUME Init PROVE TypeOK
  OBVIOUS
<1>1. MaxActions \in Nat /\ 1 \in 1..MaxActions /\ MaxCalls \in Nat /\ MaxForeign \in Nat
  BY FileConstructionConstants
<1>2. "idle" \notin Creating
  BY DEF Creating
<1>3. tree \in [Trees -> [Entries -> Contents]]
  BY DEF Init, Contents
<1>4. receipts \in [Thread -> Seq(Paths)]
  BY DEF Init
<1>5. /\ pc \in [Thread -> Steps] /\ calls \in [Thread -> 0..MaxCalls]
      /\ request \in [Thread -> Requests \cup {Nobody}]
      /\ action \in [Thread -> 1..MaxActions] /\ depth \in [Thread -> Nat]
      /\ base \in [Thread -> Trees \cup {"closed"}]
      /\ started \in [Thread -> BOOLEAN] /\ outcome \in [Thread -> Dispositions]
  BY <1>1 DEF Init, Steps, Dispositions
<1>6. \A t \in Thread : pc[t] = "idle" /\ pc[t] \notin Creating
  BY <1>2 DEF Init
<1>7. /\ owner \in Thread \cup {Nobody} /\ handle \in {"none", "open", "closed"}
      /\ number \in Trees \cup {"closed"} /\ closer \in Thread \cup {Nobody}
  BY DEF Init
<1>8. consumed \in BOOLEAN /\ made \subseteq Made
  BY DEF Init
<1>9. foreign \in 0..MaxForeign
  BY <1>1 DEF Init
<1>10. \A t \in Thread : pc[t] # "idle" => request[t] \in Requests /\ calls[t] # 0
  BY <1>6
<1>11. \A t \in Thread : pc[t] \in Creating => OnPath(t)
  BY <1>6
<1> QED  BY <1>3, <1>4, <1>5, <1>7, <1>8, <1>9, <1>10, <1>11 DEF TypeOK

(* Closing the handle keeps the types.                                     *)
LEMMA CloseType ==
    ASSUME TypeOK, NEW t \in Thread, CloseBy(t)
    PROVE  /\ handle' \in {"none", "open", "closed"}
           /\ number' \in Trees \cup {"closed"}
           /\ closer' \in Thread \cup {Nobody}
BY DEF TypeOK, CloseBy

(* An action that starts leaves the call at the beginning of its path.     *)
LEMMA StartType ==
    ASSUME TypeOK, NEW t \in Thread, pc[t] \notin {"idle"}, NEW n \in 1..MaxActions,
           n <= Len(request[t].plan), StartAction(t, n), UNCHANGED <<request, calls>>
    PROVE  /\ action' \in [Thread -> 1..MaxActions] /\ depth' \in [Thread -> Nat]
           /\ base' \in [Thread -> Trees \cup {"closed"}] /\ started' \in [Thread -> BOOLEAN]
           /\ pc' \in [Thread -> Steps]
           /\ \A s \in Thread : pc'[s] # "idle" => request'[s] \in Requests /\ calls'[s] # 0
           /\ \A s \in Thread : pc'[s] \in Creating => OnPath(s)'
<1> USE DEF TypeOK
<1>1. request[t] \in Requests /\ n \in 1..Len(request[t].plan)
  BY PlanShape
<1>2. request[t].plan[n] \in Paths /\ Len(request[t].plan[n]) \in Nat \ {0}
  BY <1>1, PlanShape, PathIsEntry
<1>3. /\ action' \in [Thread -> 1..MaxActions] /\ depth' \in [Thread -> Nat]
      /\ base' \in [Thread -> Trees \cup {"closed"}] /\ started' \in [Thread -> BOOLEAN]
      /\ pc' \in [Thread -> Steps]
  BY DEF StartAction, Steps
<1>4. \A s \in Thread : pc'[s] # "idle" => request'[s] \in Requests /\ calls'[s] # 0
  BY <1>1 DEF StartAction
<1>5. ASSUME NEW s \in Thread, pc'[s] \in Creating PROVE OnPath(s)'
  <2>1. CASE s = t
    <3>1. action'[t] = n /\ depth'[t] = 0 /\ Path(t)' = request[t].plan[n]
      BY DEF StartAction, Path
    <3>2. pc'[t] = IF Len(request[t].plan[n]) = 1 THEN "create" ELSE "directory"
      BY DEF StartAction
    <3> QED  BY <2>1, <3>1, <3>2, <1>1, <1>2 DEF OnPath
  <2>2. CASE s # t
    <3>1. OnPath(s)
      BY <1>5, <2>2 DEF StartAction
    <3> QED  BY <2>2, <3>1 DEF StartAction, OnPath, Path
  <2> QED  BY <2>1, <2>2
<1> QED  BY <1>3, <1>4, <1>5

(* A call that ends, by a failure, a refusal or an exception, leaves the   *)
(* types of everything it changes.                                         *)
LEMMA FinishType ==
    ASSUME TypeOK, NEW t \in Thread, pc[t] # "idle", NEW d \in Dispositions, Finish(t, d),
           UNCHANGED <<request, calls, action, depth, base>>
    PROVE  /\ outcome' \in [Thread -> Dispositions] /\ pc' \in [Thread -> Steps]
           /\ \A s \in Thread : pc'[s] # "idle" => request'[s] \in Requests /\ calls'[s] # 0
           /\ \A s \in Thread : pc'[s] \in Creating => OnPath(s)'
BY DEF TypeOK, Finish, Steps, Creating, OnPath, Path

(* Making an entry keeps the types.                                        *)
LEMMA MakeType ==
    ASSUME TypeOK, NEW t \in Thread, pc[t] \in Creating, Directory(t) \in Trees,
           NEW content \in Contents, Make(t, content)
    PROVE  /\ tree' \in [Trees -> [Entries -> Contents]]
           /\ made' \subseteq Made
           /\ started' \in [Thread -> BOOLEAN]
<1>1. Entry(t) \in Entries /\ Call(t) \in CallId
  BY AtEntry
<1>2. tree' \in [Trees -> [Entries -> Contents]]
  BY <1>1 DEF TypeOK, Make
<1>3. made' \subseteq Made
  BY <1>1 DEF TypeOK, Make, Made
<1> QED  BY <1>2, <1>3 DEF TypeOK, Make

(* The other steps of a call are where they were.                          *)
LEMMA OthersOnPath ==
    ASSUME TypeOK, NEW t \in Thread, UNCHANGED <<request, calls, action>>,
           \A s \in Thread \ {t} : pc'[s] = pc[s] /\ depth'[s] = depth[s] /\ base'[s] = base[s],
           pc'[t] # "idle" => pc[t] # "idle",
           pc'[t] \in Creating => OnPath(t)'
    PROVE  /\ \A s \in Thread : pc'[s] # "idle" => request'[s] \in Requests /\ calls'[s] # 0
           /\ \A s \in Thread : pc'[s] \in Creating => OnPath(s)'
BY DEF TypeOK, OnPath, Path

(* Every step keeps the types.                                             *)
LEMMA TypeStep == TypeOK /\ [Next]_vars => TypeOK'
<1> SUFFICES ASSUME TypeOK, [Next]_vars PROVE TypeOK'
  OBVIOUS
<1>1. ASSUME NEW t \in Thread, AcquireHandle(t) PROVE TypeOK'
  BY <1>1 DEF TypeOK, AcquireHandle, local, history, Trees, OnPath, Path
<1>2. ASSUME NEW t \in Thread, LeaveHandle(t) PROVE TypeOK'
  BY <1>2, CloseType DEF TypeOK, LeaveHandle, local, OnPath, Path
<1>3. ASSUME NEW t \in Thread, Begin(t) PROVE TypeOK'
  <2>1. /\ request' \in [Thread -> Requests \cup {Nobody}] /\ request'[t] \in Requests
        /\ \A s \in Thread \ {t} : request'[s] = request[s]
    BY <1>3 DEF TypeOK, Begin
  <2>2. /\ calls' \in [Thread -> 0..MaxCalls] /\ calls'[t] # 0
        /\ \A s \in Thread \ {t} : calls'[s] = calls[s]
    BY <1>3, FileConstructionConstants DEF TypeOK, Begin
  <2>3. receipts' \in [Thread -> Seq(Paths)] /\ outcome' \in [Thread -> Dispositions]
    BY <1>3 DEF TypeOK, Begin, Dispositions
  <2>4. /\ pc' \in [Thread -> Steps] /\ pc'[t] \notin Creating
        /\ \A s \in Thread \ {t} : pc'[s] = pc[s]
    BY <1>3 DEF TypeOK, Begin, Steps, Creating
  <2>5. \A s \in Thread : pc'[s] # "idle" => request'[s] \in Requests /\ calls'[s] # 0
    BY <2>1, <2>2, <2>4 DEF TypeOK
  <2>6. \A s \in Thread : pc'[s] \in Creating => OnPath(s)'
    BY <1>3, <2>1, <2>4 DEF TypeOK, Begin, OnPath, Path
  <2> QED  BY <1>3, <2>1, <2>2, <2>3, <2>4, <2>5, <2>6 DEF TypeOK, Begin, custody, history
<1>4. ASSUME NEW t \in Thread, Authorize(t) \/ ConsumeRefused(t) \/ CloseRaises(t) PROVE TypeOK'
  <2>1. CASE Authorize(t) /\ request[t].sound
    BY <2>1 DEF TypeOK, Authorize, custody, history, Steps, Creating, OnPath, Path
  <2>2. CASE ~(Authorize(t) /\ request[t].sound)
    <3>1. PICK d \in {"refused", "raised"} : Finish(t, d)
      BY <1>4, <2>2 DEF Authorize, ConsumeRefused, CloseRaises
    <3>2. pc[t] # "idle"
      BY <1>4 DEF Authorize, ConsumeRefused, CloseRaises
    <3>3. UNCHANGED <<custody, tree, calls, request, action, depth, base, started,
                      receipts, history>>
      BY <1>4 DEF Authorize, ConsumeRefused, CloseRaises
    <3> QED  BY <3>1, <3>2, <3>3, FinishType DEF TypeOK, custody, history, Dispositions
  <2> QED  BY <2>1, <2>2
<1>5. ASSUME NEW t \in Thread, Consume(t) PROVE TypeOK'
  <2>1. request[t] \in Requests /\ pc[t] # "idle"
    BY <1>5 DEF TypeOK, Consume
  <2>2. 1 \in 1..MaxActions /\ 1 <= Len(request[t].plan)
    BY <2>1, PlanShape, FileConstructionConstants
  <2> QED  BY <1>5, <2>1, <2>2, StartType DEF TypeOK, Consume, history
<1>6. ASSUME NEW t \in Thread, pc[t] \in Creating, Fail(t) PROVE TypeOK'
  <2>1. pc[t] # "idle"
    BY <1>6 DEF Creating
  <2>2. PICK d \in {"partial", "refused"} : Finish(t, d)
    BY <1>6 DEF Fail
  <2> QED  BY <1>6, <2>1, <2>2, FinishType DEF TypeOK, Fail, custody, history, Dispositions
<1>7. ASSUME NEW t \in Thread, MakeDirectory(t) PROVE TypeOK'
  <2>1. pc[t] \in Creating
    BY <1>7 DEF MakeDirectory, Creating
  <2>2. CASE Fail(t)
    BY <1>6, <2>1, <2>2
  <2>3. CASE ~Fail(t)
    <3>1. Directory(t) \in Trees
      BY <1>7, <2>3 DEF MakeDirectory
    <3>2. Make(t, "directory") \/ UNCHANGED <<tree, made, started>>
      BY <1>7, <2>3 DEF MakeDirectory
    <3>3. /\ tree' \in [Trees -> [Entries -> Contents]] /\ made' \subseteq Made
          /\ started' \in [Thread -> BOOLEAN]
      BY <2>1, <3>1, <3>2, MakeType DEF TypeOK, Contents
    <3>4. pc' = [pc EXCEPT ![t] = "open"] /\ pc[t] = "directory"
      BY <1>7, <2>3 DEF MakeDirectory
    <3>5. UNCHANGED <<custody, calls, request, action, depth, base, receipts, outcome,
                      closer, foreign>>
      BY <1>7, <2>3 DEF MakeDirectory
    <3>6. OnPath(t)'
      BY <2>1, <3>4, <3>5, AtEntry DEF TypeOK, OnPath, Path
    <3>7. pc' \in [Thread -> Steps] /\ \A s \in Thread \ {t} : pc'[s] = pc[s]
      BY <3>4 DEF TypeOK, Steps
    <3> QED  BY <3>3, <3>4, <3>5, <3>6, <3>7, OthersOnPath DEF TypeOK, custody
  <2> QED  BY <2>2, <2>3
<1>8. ASSUME NEW t \in Thread, OpenDirectory(t) PROVE TypeOK'
  <2>1. pc[t] \in Creating
    BY <1>8 DEF OpenDirectory, Creating
  <2>2. CASE Fail(t)
    BY <1>6, <2>1, <2>2
  <2>3. CASE ~Fail(t)
    <3>1. /\ Directory(t) \in Trees /\ pc[t] = "open"
          /\ base' = [base EXCEPT ![t] = Directory(t)]
          /\ depth' = [depth EXCEPT ![t] = @ + 1]
          /\ pc' = [pc EXCEPT ![t] = IF depth[t] + 2 = Len(Path(t)) THEN "create"
                                                                   ELSE "directory"]
          /\ UNCHANGED <<custody, tree, calls, request, action, started, receipts,
                         outcome, history>>
      BY <1>8, <2>3 DEF OpenDirectory
    <3>2. OnPath(t)'
      <4>1. Path(t)' = Path(t) /\ depth'[t] = depth[t] + 1 /\ base'[t] \in Trees
        BY <3>1 DEF TypeOK, Path
      <4>2. depth[t] + 1 < Len(Path(t)) /\ depth[t] \in Nat /\ Len(Path(t)) \in Nat
        <5>1. OnPath(t) /\ depth[t] \in Nat /\ Len(Path(t)) \in Nat
          BY <2>1, AtEntry DEF TypeOK
        <5>2. depth[t] < Len(Path(t)) /\ depth[t] + 1 # Len(Path(t))
          BY <3>1, <5>1 DEF OnPath
        <5> QED  BY <5>1, <5>2
      <4>3. pc'[t] = IF depth[t] + 2 = Len(Path(t)) THEN "create" ELSE "directory"
        BY <3>1 DEF TypeOK
      <4>4. action'[t] <= Len(request'[t].plan)
        BY <2>1, <3>1 DEF TypeOK, OnPath
      <4> QED  BY <4>1, <4>2, <4>3, <4>4 DEF OnPath
    <3>3. /\ pc' \in [Thread -> Steps] /\ base' \in [Thread -> Trees \cup {"closed"}]
          /\ depth' \in [Thread -> Nat]
          /\ \A s \in Thread \ {t} : pc'[s] = pc[s] /\ depth'[s] = depth[s] /\ base'[s] = base[s]
      BY <3>1 DEF TypeOK, Steps
    <3> QED  BY <3>1, <3>2, <3>3, OthersOnPath DEF TypeOK, custody, history
  <2> QED  BY <2>2, <2>3
<1>9. ASSUME NEW t \in Thread, CreateFile(t) PROVE TypeOK'
  <2>1. pc[t] \in Creating
    BY <1>9 DEF CreateFile, Creating
  <2>2. CASE Fail(t)
    BY <1>6, <2>1, <2>2
  <2>3. CASE ~Fail(t)
    <3>1. /\ Directory(t) \in Trees /\ pc[t] = "create"
          /\ Make(t, "partial")
          /\ base' = [base EXCEPT ![t] = Directory(t)]
          /\ pc' = [pc EXCEPT ![t] = "write"]
          /\ UNCHANGED <<custody, calls, request, action, depth, receipts, outcome,
                         closer, foreign>>
      BY <1>9, <2>3 DEF CreateFile
    <3>2. /\ tree' \in [Trees -> [Entries -> Contents]] /\ made' \subseteq Made
          /\ started' \in [Thread -> BOOLEAN]
      BY <2>1, <3>1, MakeType DEF Contents
    <3>3. OnPath(t)'
      BY <2>1, <3>1, AtEntry DEF TypeOK, OnPath, Path
    <3>4. /\ pc' \in [Thread -> Steps] /\ base' \in [Thread -> Trees \cup {"closed"}]
          /\ \A s \in Thread \ {t} : pc'[s] = pc[s] /\ base'[s] = base[s]
      BY <3>1 DEF TypeOK, Steps
    <3> QED  BY <3>1, <3>2, <3>3, <3>4, OthersOnPath DEF TypeOK, custody
  <2> QED  BY <2>2, <2>3
<1>10. ASSUME NEW t \in Thread, WriteFile(t) PROVE TypeOK'
  <2>1. pc[t] \in Creating
    BY <1>10 DEF WriteFile, Creating
  <2>2. CASE Fail(t)
    BY <1>6, <2>1, <2>2
  <2>3. CASE ~Fail(t)
    <3>1. /\ pc[t] = "write"
          /\ tree' = [tree EXCEPT ![base[t]][Path(t)] = "whole"]
          /\ pc' = [pc EXCEPT ![t] = "verify"]
          /\ UNCHANGED <<custody, calls, local, history>>
      BY <1>10, <2>3 DEF WriteFile
    <3>2. OnPath(t)' /\ base[t] \in Trees /\ Path(t) \in Entries
      BY <2>1, <3>1, AtEntry DEF TypeOK, OnPath, Path, local
    <3>3. tree' \in [Trees -> [Entries -> Contents]]
      BY <3>1, <3>2 DEF TypeOK, Contents
    <3>4. pc' \in [Thread -> Steps] /\ \A s \in Thread \ {t} : pc'[s] = pc[s]
      BY <3>1 DEF TypeOK, Steps
    <3> QED  BY <3>1, <3>2, <3>3, <3>4, OthersOnPath DEF TypeOK, custody, local, history
  <2> QED  BY <2>2, <2>3
<1>11. ASSUME NEW t \in Thread, VerifyFile(t) PROVE TypeOK'
  <2>1. pc[t] \in Creating /\ pc[t] # "idle"
    BY <1>11 DEF VerifyFile, Creating
  <2>2. CASE Fail(t)
    BY <1>6, <2>1, <2>2
  <2>3. CASE ~Fail(t)
    <3>1. /\ receipts' = [receipts EXCEPT ![t] = Append(@, Path(t))]
          /\ IF action[t] < Len(request[t].plan)
             THEN StartAction(t, action[t] + 1) /\ UNCHANGED outcome
             ELSE Finish(t, "created") /\ UNCHANGED <<action, depth, base, started>>
          /\ UNCHANGED <<custody, tree, calls, request, history>>
      BY <1>11, <2>3 DEF VerifyFile
    <3>2. Path(t) \in Paths /\ Len(request[t].plan) \in 1..MaxActions
      BY <2>1, AtEntry
    <3>3. receipts' \in [Thread -> Seq(Paths)]
      <4>1. receipts \in [Thread -> Seq(Paths)]
        BY DEF TypeOK
      <4>2. Append(receipts[t], Path(t)) \in Seq(Paths)
        BY <3>2, <4>1
      <4> QED  BY <3>1, <4>1, <4>2
    <3>4. CASE action[t] < Len(request[t].plan)
      <4>1. action[t] + 1 \in 1..MaxActions /\ action[t] + 1 <= Len(request[t].plan)
        <5>1. action[t] \in 1..MaxActions /\ MaxActions \in Nat
          BY FileConstructionConstants DEF TypeOK
        <5>2. Len(request[t].plan) \in Nat /\ Len(request[t].plan) <= MaxActions
          BY <3>2, <5>1
        <5> QED  BY <3>4, <5>1, <5>2
      <4>2. StartAction(t, action[t] + 1) /\ UNCHANGED <<request, calls, outcome>>
        BY <3>1, <3>4
      <4>3. /\ action' \in [Thread -> 1..MaxActions] /\ depth' \in [Thread -> Nat]
            /\ base' \in [Thread -> Trees \cup {"closed"}] /\ started' \in [Thread -> BOOLEAN]
            /\ pc' \in [Thread -> Steps]
            /\ \A s \in Thread : pc'[s] # "idle" => request'[s] \in Requests /\ calls'[s] # 0
            /\ \A s \in Thread : pc'[s] \in Creating => OnPath(s)'
        BY <2>1, <4>1, <4>2, StartType
      <4> QED  BY <3>1, <3>3, <4>2, <4>3 DEF TypeOK, custody, history
    <3>5. CASE ~(action[t] < Len(request[t].plan))
      BY <2>1, <3>1, <3>3, <3>5, FinishType DEF TypeOK, custody, history, Dispositions
    <3> QED  BY <3>4, <3>5
  <2> QED  BY <2>2, <2>3
<1>12. ASSUME NEW t \in Thread, Return(t) PROVE TypeOK'
  <2>1. /\ pc' \in [Thread -> Steps] /\ pc'[t] = "idle" /\ "idle" \notin Creating
        /\ \A s \in Thread \ {t} : pc'[s] = pc[s]
    BY <1>12 DEF TypeOK, Return, Steps, Creating
  <2>2. UNCHANGED <<owner, consumed, tree, calls, local, made, foreign>>
    BY <1>12 DEF Return
  <2>3. /\ handle' \in {"none", "open", "closed"} /\ number' \in Trees \cup {"closed"}
        /\ closer' \in Thread \cup {Nobody}
    BY <1>12, CloseType DEF Return
  <2> QED  BY <2>1, <2>2, <2>3, OthersOnPath DEF TypeOK, local
<1>13. CASE ReuseNumber
  BY <1>13 DEF TypeOK, ReuseNumber, local, history, Trees, OnPath, Path
<1>14. ASSUME NEW e \in Entries, NEW content \in {"foreign", "directory"},
              CreateForeign(e, content)
       PROVE  TypeOK'
  <2>1. tree' \in [Trees -> [Entries -> Contents]]
    BY <1>14 DEF TypeOK, CreateForeign, Trees, Contents
  <2>2. foreign' \in 0..MaxForeign
    BY <1>14, FileConstructionConstants DEF TypeOK, CreateForeign
  <2> QED  BY <1>14, <2>1, <2>2 DEF TypeOK, CreateForeign, custody, local, OnPath, Path
<1>15. CASE UNCHANGED vars
  BY <1>15 DEF TypeOK, vars, OnPath, Path
<1> QED
  BY <1>1, <1>2, <1>3, <1>4, <1>5, <1>7, <1>8, <1>9, <1>10, <1>11, <1>12, <1>13, <1>14,
     <1>15 DEF Next, Construct

(* The variables have their types in every behaviour: in particular a call *)
(* never works below the end of an action's path or on an action its plan  *)
(* does not have.                                                          *)
THEOREM TypeCorrect == Spec => []TypeOK
<1>1. Init => TypeOK
  BY TypeInit
<1>2. TypeOK /\ [Next]_vars => TypeOK'
  BY TypeStep
<1> QED  BY <1>1, <1>2, PTL DEF Spec

-----------------------------------------------------------------------------
(* One construction.  The consumption is what makes a call the creating    *)
(* one: it needs the owner's thread, and happens once.                     *)

OneCall ==
    /\ \A t \in Thread : pc[t] \in Creating => owner = t /\ consumed
    /\ consumed \/ made = {}
    /\ OneConstruction
    /\ \A t \in Thread : pc[t] \in Creating => \A m \in made : m.call = Call(t)

(* Only a call that is creating makes an entry, and no step changes which  *)
(* call a thread is in the middle of.                                      *)
LEMMA MadeByCreating ==
    ASSUME TypeOK, [Next]_vars
    PROVE  \/ made' = made
           \/ \E t \in Thread, content \in {"directory", "partial"} :
                 /\ pc[t] \in Creating /\ pc'[t] \in Creating
                 /\ Directory(t) \in Trees
                 /\ Make(t, content) /\ UNCHANGED <<custody, calls, closer>>
                 /\ \A s \in Thread \ {t} : pc'[s] = pc[s]
<1>1. ASSUME NEW t \in Thread, MakeDirectory(t) \/ CreateFile(t), made' # made
      PROVE  \E content \in {"directory", "partial"} :
                /\ pc[t] \in Creating /\ pc'[t] \in Creating
                /\ Directory(t) \in Trees
                /\ Make(t, content) /\ UNCHANGED <<custody, calls, closer>>
                /\ \A s \in Thread \ {t} : pc'[s] = pc[s]
  <2>1. ~Fail(t)
    BY <1>1 DEF Fail, history
  <2>2. CASE MakeDirectory(t)
    <3>1. /\ Directory(t) \in Trees /\ Make(t, "directory")
          /\ pc[t] = "directory" /\ pc' = [pc EXCEPT ![t] = "open"]
          /\ UNCHANGED <<custody, calls, closer>>
      BY <1>1, <2>1, <2>2 DEF MakeDirectory
    <3> QED  BY <3>1 DEF TypeOK, Creating
  <2>3. CASE CreateFile(t)
    <3>1. /\ Directory(t) \in Trees /\ Make(t, "partial")
          /\ pc[t] = "create" /\ pc' = [pc EXCEPT ![t] = "write"]
          /\ UNCHANGED <<custody, calls, closer>>
      BY <1>1, <2>1, <2>3 DEF CreateFile
    <3> QED  BY <3>1 DEF TypeOK, Creating
  <2> QED  BY <1>1, <2>2, <2>3
<1>2. ASSUME NEW t \in Thread, Construct(t), ~MakeDirectory(t), ~CreateFile(t)
      PROVE  made' = made
  BY <1>2 DEF Construct, Authorize, Consume, ConsumeRefused, OpenDirectory, WriteFile,
              VerifyFile, CloseRaises, Return, Fail, history
<1>3. ASSUME NEW t \in Thread, AcquireHandle(t) \/ LeaveHandle(t) \/ Begin(t)
      PROVE  made' = made
  BY <1>3 DEF AcquireHandle, LeaveHandle, Begin, history
<1>4. CASE ReuseNumber \/ UNCHANGED vars
  BY <1>4 DEF ReuseNumber, vars, history
<1>5. ASSUME NEW e \in Entries, NEW content \in {"foreign", "directory"},
             CreateForeign(e, content)
      PROVE  made' = made
  BY <1>5 DEF CreateForeign
<1> QED
  BY <1>1, <1>2, <1>3, <1>4, <1>5, Zenon DEF Next, Construct

(* A call that creates files was already doing so, or has just consumed    *)
(* the handle.                                                             *)
LEMMA CreatingBefore ==
    ASSUME TypeOK, [Next]_vars, NEW t \in Thread, pc'[t] \in Creating
    PROVE  /\ calls'[t] = calls[t]
           /\ \/ pc[t] \in Creating
              \/ /\ pc[t] = "consume" /\ handle = "open" /\ ~consumed /\ owner = t
                 /\ consumed' /\ UNCHANGED <<owner, handle, number, made, closer>>
<1>1. ASSUME NEW s \in Thread, AcquireHandle(s) \/ LeaveHandle(s) \/ Begin(s)
      PROVE  pc[t] \in Creating /\ calls'[t] = calls[t]
  BY <1>1 DEF TypeOK, AcquireHandle, LeaveHandle, Begin, Creating
<1>2. ASSUME NEW s \in Thread, Consume(s)
      PROVE  /\ calls'[t] = calls[t]
             /\ \/ pc[t] \in Creating
                \/ /\ pc[t] = "consume" /\ handle = "open" /\ ~consumed /\ owner = t
                   /\ consumed' /\ UNCHANGED <<owner, handle, number, made, closer>>
  BY <1>2 DEF TypeOK, Consume, StartAction, history
<1>3. ASSUME NEW s \in Thread, Construct(s), ~Consume(s)
      PROVE  pc[t] \in Creating /\ calls'[t] = calls[t]
  <2>1. calls' = calls
    BY <1>3 DEF Construct, Authorize, ConsumeRefused, MakeDirectory, OpenDirectory, CreateFile,
                WriteFile, VerifyFile, CloseRaises, Return, Fail
  <2>2. CASE Authorize(s) \/ ConsumeRefused(s) \/ CloseRaises(s) \/ Return(s)
    BY <2>2 DEF TypeOK, Authorize, ConsumeRefused, CloseRaises, Return, Finish, Creating
  <2>3. CASE MakeDirectory(s) \/ OpenDirectory(s)
    BY <2>3 DEF TypeOK, MakeDirectory, OpenDirectory, Fail, Finish, Creating
  <2>4. CASE CreateFile(s) \/ WriteFile(s)
    BY <2>4 DEF TypeOK, CreateFile, WriteFile, Fail, Finish, Creating
  <2>5. CASE VerifyFile(s)
    BY <2>5 DEF TypeOK, VerifyFile, StartAction, Fail, Finish, Creating
  <2> QED  BY <1>3, <2>1, <2>2, <2>3, <2>4, <2>5 DEF Construct
<1>4. CASE ReuseNumber \/ UNCHANGED vars
  BY <1>4 DEF ReuseNumber, vars
<1>5. ASSUME NEW e \in Entries, NEW content \in {"foreign", "directory"},
             CreateForeign(e, content)
      PROVE  pc[t] \in Creating /\ calls'[t] = calls[t]
  BY <1>5 DEF CreateForeign
<1> QED
  BY <1>1, <1>2, <1>3, <1>4, <1>5, Zenon DEF Next

(* The owner stays, a consumption is for ever, the descriptor number is    *)
(* the workspace's until the handle is closed, and the first close is by a *)
(* thread that is not creating files.                                      *)
LEMMA HandleBefore ==
    ASSUME TypeOK, [Next]_vars
    PROVE  /\ \/ UNCHANGED <<owner, handle, number, closer>>
              \/ /\ owner = Nobody /\ owner' \in Thread /\ handle' = "open"
                 /\ number' = "workspace" /\ closer' = closer
              \/ \E t \in Thread : /\ handle = "open" /\ handle' = "closed" /\ closer' = t
                                   /\ pc[t] \notin Creating /\ pc'[t] \notin Creating
                                   /\ owner' = owner /\ number' = "closed"
              \/ handle = "closed" /\ UNCHANGED <<owner, handle, closer>>
           /\ consumed => consumed'
<1>1. ASSUME NEW t \in Thread, AcquireHandle(t) \/ Begin(t)
      PROVE  /\ \/ UNCHANGED <<owner, handle, number, closer>>
                \/ /\ owner = Nobody /\ owner' \in Thread /\ handle' = "open"
                   /\ number' = "workspace" /\ closer' = closer
             /\ consumed => consumed'
  BY <1>1 DEF AcquireHandle, Begin, custody, history
<1>2. ASSUME NEW t \in Thread, LeaveHandle(t) \/ Return(t)
      PROVE  /\ \/ UNCHANGED <<owner, handle, number, closer>>
                \/ /\ handle = "open" /\ handle' = "closed" /\ closer' = t
                   /\ pc[t] \notin Creating /\ pc'[t] \notin Creating
                   /\ owner' = owner /\ number' = "closed"
             /\ consumed => consumed'
  BY <1>2 DEF TypeOK, LeaveHandle, Return, CloseBy, Creating
<1>3. ASSUME NEW t \in Thread, Construct(t), ~Return(t)
      PROVE  UNCHANGED <<owner, handle, number, closer>> /\ (consumed => consumed')
  BY <1>3 DEF Construct, Authorize, Consume, ConsumeRefused, MakeDirectory, OpenDirectory,
              CreateFile, WriteFile, VerifyFile, CloseRaises, Fail, custody, history
<1>4. CASE ReuseNumber
  BY <1>4 DEF ReuseNumber, history
<1>5. CASE UNCHANGED vars
  BY <1>5 DEF vars
<1>6. ASSUME NEW e \in Entries, NEW content \in {"foreign", "directory"},
             CreateForeign(e, content)
      PROVE  UNCHANGED <<owner, handle, number, closer>> /\ (consumed => consumed')
  BY <1>6 DEF CreateForeign, custody
<1> QED
  BY <1>1, <1>2, <1>3, <1>4, <1>5, <1>6, Zenon DEF Next

(* Nothing is created before the handle is acquired.                       *)
LEMMA OneInit == Init => OneCall
BY FileConstructionConstants DEF Init, OneCall, OneConstruction, Creating

(* A creating call is the one whose consumption it was.                    *)
LEMMA OneStep == TypeOK /\ OneCall /\ [Next]_vars => OneCall'
<1> SUFFICES ASSUME TypeOK, OneCall, [Next]_vars PROVE OneCall'
  OBVIOUS
<1>1. \A t \in Thread : pc'[t] \in Creating => owner' = t /\ consumed'
  BY CreatingBefore, HandleBefore, FileConstructionConstants DEF OneCall
<1>2. CASE made' = made
  <2>1. consumed' \/ made' = {}
    BY <1>2, HandleBefore DEF OneCall
  <2>2. \A t \in Thread : pc'[t] \in Creating => \A m \in made' : m.call = Call(t)'
    BY <1>2, CreatingBefore DEF OneCall, Call
  <2> QED  BY <1>1, <1>2, <2>1, <2>2 DEF OneCall, OneConstruction
<1>3. CASE made' # made
  <2>1. PICK t \in Thread, content \in {"directory", "partial"} :
           /\ pc[t] \in Creating /\ pc'[t] \in Creating
           /\ Make(t, content) /\ UNCHANGED <<custody, calls, closer>>
    BY <1>3, MadeByCreating
  <2>2. \A m \in made' : m.call = Call(t)
    BY <2>1 DEF OneCall, Make
  <2>3. consumed' /\ Call(t)' = Call(t)
    BY <2>1 DEF OneCall, custody, Call
  <2>4. \A s \in Thread : pc'[s] \in Creating => s = t
    BY <1>1, <2>1
  <2>5. \A s \in Thread : pc'[s] \in Creating => \A m \in made' : m.call = Call(s)'
    BY <2>2, <2>3, <2>4
  <2> QED  BY <1>1, <2>2, <2>3, <2>5 DEF OneCall, OneConstruction
<1> QED  BY <1>2, <1>3

(* However many threads call construct() with the handle, and however      *)
(* often, everything that is ever created is created by one call.          *)
THEOREM ConstructsOnce == Spec => []OneConstruction
<1>1. Init => TypeOK /\ OneCall
  BY TypeInit, OneInit
<1>2. TypeOK /\ OneCall /\ [Next]_vars => TypeOK' /\ OneCall'
  BY TypeStep, OneStep
<1>3. OneCall => OneConstruction
  BY DEF OneCall
<1> QED  BY <1>1, <1>2, <1>3, PTL DEF Spec

-----------------------------------------------------------------------------
(* Where the entries are made.  The number denotes another directory only  *)
(* after the handle was closed, and the creating thread did not close it.  *)

RootInv ==
    /\ owner = Nobody <=> handle = "none"
    /\ handle = "open" => number = "workspace"
    /\ number = "elsewhere" => handle = "closed"
    /\ handle = "closed" <=> closer # Nobody
    /\ \A t \in Thread : pc[t] \in Creating => closer # t
    /\ \A t \in Thread : pc[t] \in Creating /\ base[t] = "elsewhere" => handle = "closed"
    /\ StrayNeedsOtherThread

(* A descriptor of the creating thread is of the directory its last one,   *)
(* or the number, was of.                                                  *)
LEMMA BaseBefore ==
    ASSUME TypeOK, [Next]_vars, NEW t \in Thread, pc'[t] \in Creating, base'[t] = "elsewhere"
    PROVE  pc[t] \in Creating /\ (base[t] = "elsewhere" \/ number = "elsewhere")
<1>1. ASSUME NEW s \in Thread, AcquireHandle(s) \/ LeaveHandle(s) \/ Begin(s)
      PROVE  pc[t] \in Creating /\ base'[t] = base[t]
  BY <1>1 DEF TypeOK, AcquireHandle, LeaveHandle, Begin, Creating, local
<1>2. ASSUME NEW s \in Thread, Authorize(s) \/ ConsumeRefused(s) \/ CloseRaises(s) \/ Return(s)
      PROVE  pc[t] \in Creating /\ base'[t] = base[t]
  BY <1>2 DEF TypeOK, Authorize, ConsumeRefused, CloseRaises, Return, Finish, Creating, local
<1>3. ASSUME NEW s \in Thread, Consume(s) \/ VerifyFile(s)
      PROVE  pc[t] \in Creating /\ base'[t] = base[t]
  BY <1>3 DEF TypeOK, Consume, VerifyFile, StartAction, Fail, Finish, Creating
<1>4. ASSUME NEW s \in Thread, MakeDirectory(s) \/ WriteFile(s)
      PROVE  pc[t] \in Creating /\ base'[t] = base[t]
  BY <1>4 DEF TypeOK, MakeDirectory, WriteFile, Fail, Finish, Creating, local
<1>5. ASSUME NEW s \in Thread, OpenDirectory(s) \/ CreateFile(s)
      PROVE  pc[t] \in Creating /\ (base[t] = "elsewhere" \/ number = "elsewhere")
  <2>1. pc[t] \in Creating
    BY <1>5 DEF TypeOK, OpenDirectory, CreateFile, Fail, Finish, Creating
  <2>2. base' = base \/ base' = [base EXCEPT ![s] = Directory(s)]
    BY <1>5 DEF OpenDirectory, CreateFile, Fail
  <2> QED  BY <2>1, <2>2 DEF TypeOK, Directory
<1>6. CASE ReuseNumber \/ UNCHANGED vars
  BY <1>6 DEF ReuseNumber, vars, local
<1>7. ASSUME NEW e \in Entries, NEW content \in {"foreign", "directory"},
             CreateForeign(e, content)
      PROVE  pc[t] \in Creating /\ base'[t] = base[t]
  BY <1>7 DEF CreateForeign, local
<1> QED
  BY <1>1, <1>2, <1>3, <1>4, <1>5, <1>6, <1>7 DEF Next, Construct

(* Before the handle is acquired the number denotes nothing.               *)
LEMMA RootInit == Init => RootInv
BY DEF Init, RootInv, StrayNeedsOtherThread, Creating

(* A step that makes an entry elsewhere finds the handle closed by a       *)
(* thread that is not creating, and that stays so.                         *)
LEMMA RootStep == TypeOK /\ RootInv /\ [Next]_vars => RootInv'
<1> SUFFICES ASSUME TypeOK, RootInv, [Next]_vars PROVE RootInv'
  OBVIOUS
<1>1. /\ owner' = Nobody <=> handle' = "none"
      /\ handle' = "open" => number' = "workspace"
      /\ number' = "elsewhere" => handle' = "closed"
      /\ handle' = "closed" <=> closer' # Nobody
  <2>1. CASE UNCHANGED <<owner, handle, number, closer>>
    BY <2>1 DEF RootInv
  <2>2. CASE ~UNCHANGED <<owner, handle, number, closer>>
    BY <2>2, HandleBefore, FileConstructionConstants DEF TypeOK, RootInv
  <2> QED  BY <2>1, <2>2
<1>2. \A t \in Thread : pc'[t] \in Creating => closer' # t
  <2> SUFFICES ASSUME NEW t \in Thread, pc'[t] \in Creating PROVE closer' # t
    OBVIOUS
  <2>1. closer # t
    BY CreatingBefore, FileConstructionConstants DEF RootInv
  <2> QED  BY <2>1, HandleBefore
<1>3. handle = "closed" => handle' = "closed" /\ closer' = closer
  BY HandleBefore, FileConstructionConstants DEF TypeOK, RootInv
<1>4. \A t \in Thread : pc'[t] \in Creating /\ base'[t] = "elsewhere" => handle' = "closed"
  BY <1>3, BaseBefore DEF RootInv
<1>5. StrayNeedsOtherThread'
  <2> SUFFICES ASSUME NEW m \in made', m.root # "workspace"
               PROVE  closer' \notin {m.call[1], Nobody}
    BY DEF StrayNeedsOtherThread
  <2>1. CASE m \in made
    <3>1. closer \notin {m.call[1], Nobody}
      BY <2>1 DEF RootInv, StrayNeedsOtherThread
    <3> QED  BY <3>1, <1>3 DEF RootInv
  <2>2. CASE m \notin made
    <3>1. PICK t \in Thread, content \in {"directory", "partial"} :
             /\ pc[t] \in Creating /\ Directory(t) \in Trees
             /\ Make(t, content) /\ UNCHANGED <<custody, calls, closer>>
      BY <2>2, MadeByCreating
    <3>2. m.root = Directory(t) /\ m.call = Call(t)
      BY <2>2, <3>1 DEF Make
    <3>3. Directory(t) = "elsewhere"
      BY <3>1, <3>2 DEF Trees
    <3>4. handle = "closed"
      BY <3>1, <3>3 DEF Directory, RootInv
    <3>5. closer # t /\ closer # Nobody
      BY <3>1, <3>4 DEF RootInv
    <3> QED  BY <3>1, <3>2, <3>5 DEF Call
  <2> QED  BY <2>1, <2>2
<1> QED  BY <1>1, <1>2, <1>4, <1>5 DEF RootInv

(* An entry is made outside the workspace only when a thread other than    *)
(* the one that creates files has closed the handle under it.              *)
THEOREM StraysNeedOtherThread == Spec => []StrayNeedsOtherThread
<1>1. Init => TypeOK /\ RootInv
  BY TypeInit, RootInit
<1>2. TypeOK /\ RootInv /\ [Next]_vars => TypeOK' /\ RootInv'
  BY TypeStep, RootStep
<1>3. RootInv => StrayNeedsOtherThread
  BY DEF RootInv
<1> QED  BY <1>1, <1>2, <1>3, PTL DEF Spec

(* So while the handle stays in the thread it is local to, everything is   *)
(* created in the workspace, as ARCHITECTURE.md says.                      *)
THEOREM OneThreadStaysInWorkspace ==
    ASSUME \A s, t \in Thread : s = t
    PROVE  Spec => []EffectsInWorkspace
<1>1. Init => TypeOK /\ RootInv
  BY TypeInit, RootInit
<1>2. TypeOK /\ RootInv /\ [Next]_vars => TypeOK' /\ RootInv'
  BY TypeStep, RootStep
<1>3. TypeOK /\ RootInv => EffectsInWorkspace
  BY DEF TypeOK, RootInv, StrayNeedsOtherThread, EffectsInWorkspace, Made, CallId
<1> QED  BY <1>1, <1>2, <1>3, PTL DEF Spec

-----------------------------------------------------------------------------
(* Create-only.  The file being written is still the one this call began,  *)
(* because no other call creates anything.                                 *)

FileInv == \A t \in Thread : pc[t] = "write" => tree[base[t]][Path(t)] = "partial"

(* Two threads are never creating files at once.                           *)
LEMMA CreatorAlone ==
    ASSUME OneCall, NEW s \in Thread, NEW t \in Thread,
           pc[s] \in Creating, pc[t] \in Creating
    PROVE  s = t
BY DEF OneCall

(* At the steps that create and write the file the entry is the path.      *)
LEMMA EntryIsPath ==
    ASSUME TypeOK, NEW t \in Thread, pc[t] \in {"create", "write"}
    PROVE  Entry(t) = Path(t) /\ Path(t) \in Entries
<1>1. pc[t] \in Creating
  BY DEF Creating
<1>2. OnPath(t) /\ Path(t) \in Paths /\ Path(t) \in Entries
  BY <1>1, AtEntry DEF TypeOK
<1>3. depth[t] + 1 = Len(Path(t))
  BY <1>2 DEF OnPath
<1> QED  BY <1>2, <1>3, PathIsEntry DEF Entry

(* What a step does to the entries: nothing, one entry that was absent     *)
(* comes to be, or the file being written becomes whole.                   *)
LEMMA TreeChange ==
    ASSUME TypeOK, [Next]_vars
    PROVE  \/ tree' = tree
           \/ \E r \in Trees, e \in Entries, content \in Contents :
                 tree[r][e] = "absent" /\ tree' = [tree EXCEPT ![r][e] = content]
           \/ \E t \in Thread : /\ pc[t] = "write" /\ pc'[t] = "verify"
                                /\ tree' = [tree EXCEPT ![base[t]][Path(t)] = "whole"]
<1>1. ASSUME NEW t \in Thread, MakeDirectory(t) \/ CreateFile(t), tree' # tree
      PROVE  \E r \in Trees, e \in Entries, content \in Contents :
                tree[r][e] = "absent" /\ tree' = [tree EXCEPT ![r][e] = content]
  <2>1. Entry(t) \in Entries
    BY <1>1, AtEntry DEF MakeDirectory, CreateFile, Creating
  <2>2. PICK content \in {"directory", "partial"} :
           /\ Directory(t) \in Trees /\ tree[Directory(t)][Entry(t)] = "absent"
           /\ Make(t, content)
    BY <1>1 DEF MakeDirectory, CreateFile, Fail
  <2> QED  BY <2>1, <2>2 DEF Make, Contents
<1>2. ASSUME NEW t \in Thread, WriteFile(t), tree' # tree
      PROVE  /\ pc[t] = "write" /\ pc'[t] = "verify"
             /\ tree' = [tree EXCEPT ![base[t]][Path(t)] = "whole"]
  BY <1>2 DEF TypeOK, WriteFile, Fail
<1>3. ASSUME NEW t \in Thread, Construct(t), ~MakeDirectory(t), ~CreateFile(t), ~WriteFile(t)
      PROVE  tree' = tree
  BY <1>3 DEF Construct, Authorize, Consume, ConsumeRefused, OpenDirectory, VerifyFile,
              CloseRaises, Return, Fail
<1>4. ASSUME NEW t \in Thread, AcquireHandle(t) \/ LeaveHandle(t) \/ Begin(t)
      PROVE  tree' = tree
  BY <1>4 DEF AcquireHandle, LeaveHandle, Begin
<1>5. CASE ReuseNumber \/ UNCHANGED vars
  BY <1>5 DEF ReuseNumber, vars
<1>6. ASSUME NEW e \in Entries, NEW content \in {"foreign", "directory"},
             CreateForeign(e, content)
      PROVE  \E r \in Trees, c \in Contents :
                tree[r][e] = "absent" /\ tree' = [tree EXCEPT ![r][e] = c]
  BY <1>6 DEF CreateForeign, Trees, Contents
<1>7. CASE tree' # tree
  <2>1. CASE \E t \in Thread : MakeDirectory(t) \/ CreateFile(t)
    <3>1. PICK t \in Thread : MakeDirectory(t) \/ CreateFile(t)
      BY <2>1
    <3>2. \E r \in Trees, e \in Entries, content \in Contents :
             tree[r][e] = "absent" /\ tree' = [tree EXCEPT ![r][e] = content]
      BY <1>1, <1>7, <3>1
    <3> QED  BY <3>2
  <2>2. CASE \E t \in Thread : WriteFile(t)
    BY <1>2, <1>7, <2>2
  <2>3. CASE \E e \in Entries, content \in {"foreign", "directory"} : CreateForeign(e, content)
    <3>1. PICK e \in Entries, content \in {"foreign", "directory"} : CreateForeign(e, content)
      BY <2>3
    <3>2. PICK r \in Trees, c \in Contents :
             tree[r][e] = "absent" /\ tree' = [tree EXCEPT ![r][e] = c]
      BY <1>6, <3>1
    <3> QED  BY <3>2
  <2> QED  BY <1>3, <1>4, <1>5, <1>7, <2>1, <2>2, <2>3, Zenon DEF Next
<1> QED  BY <1>7

(* A call that is about to write was so before, on the same file, or has   *)
(* just created it.                                                        *)
LEMMA WritingBefore ==
    ASSUME TypeOK, [Next]_vars, NEW t \in Thread, pc'[t] = "write"
    PROVE  \/ pc[t] = "write" /\ base'[t] = base[t] /\ Path(t)' = Path(t)
           \/ tree'[base'[t]][Path(t)'] = "partial"
<1>1. ASSUME NEW s \in Thread, AcquireHandle(s) \/ LeaveHandle(s) \/ Begin(s)
      PROVE  pc[t] = "write" /\ base'[t] = base[t] /\ Path(t)' = Path(t)
  BY <1>1 DEF TypeOK, AcquireHandle, LeaveHandle, Begin, local, Path
<1>2. ASSUME NEW s \in Thread, Authorize(s) \/ ConsumeRefused(s) \/ CloseRaises(s) \/ Return(s)
      PROVE  pc[t] = "write" /\ base'[t] = base[t] /\ Path(t)' = Path(t)
  BY <1>2 DEF TypeOK, Authorize, ConsumeRefused, CloseRaises, Return, Finish, local, Path
<1>3. ASSUME NEW s \in Thread, Consume(s) \/ VerifyFile(s)
      PROVE  pc[t] = "write" /\ base'[t] = base[t] /\ Path(t)' = Path(t)
  <2>1. CASE Consume(s)
    BY <2>1 DEF TypeOK, Consume, StartAction, Path
  <2>2. CASE VerifyFile(s)
    <3>1. s # t
      BY <2>2 DEF TypeOK, VerifyFile, StartAction, Fail, Finish
    <3> QED  BY <2>2, <3>1 DEF TypeOK, VerifyFile, StartAction, Fail, Finish, Path
  <2> QED  BY <1>3, <2>1, <2>2
<1>4. ASSUME NEW s \in Thread, MakeDirectory(s) \/ OpenDirectory(s) \/ WriteFile(s)
      PROVE  pc[t] = "write" /\ base'[t] = base[t] /\ Path(t)' = Path(t)
  BY <1>4 DEF TypeOK, MakeDirectory, OpenDirectory, WriteFile, Fail, Finish, local, Path
<1>5. ASSUME NEW s \in Thread, CreateFile(s), s # t
      PROVE  pc[t] = "write" /\ base'[t] = base[t] /\ Path(t)' = Path(t)
  BY <1>5 DEF TypeOK, CreateFile, Fail, Finish, Path
<1>6. ASSUME CreateFile(t) PROVE tree'[base'[t]][Path(t)'] = "partial"
  <2>1. ~Fail(t)
    BY DEF TypeOK, Fail, Finish
  <2>2. /\ pc[t] = "create" /\ Directory(t) \in Trees /\ Make(t, "partial")
        /\ base'[t] = Directory(t) /\ Path(t)' = Path(t)
    BY <1>6, <2>1 DEF TypeOK, CreateFile, Path
  <2>3. tree' = [tree EXCEPT ![Directory(t)][Path(t)] = "partial"] /\ Path(t) \in Entries
    BY <2>2, EntryIsPath DEF Make
  <2> QED  BY <2>2, <2>3 DEF TypeOK
<1>7. CASE ReuseNumber \/ UNCHANGED vars
  BY <1>7 DEF ReuseNumber, vars, local, Path
<1>8. ASSUME NEW e \in Entries, NEW content \in {"foreign", "directory"},
             CreateForeign(e, content)
      PROVE  pc[t] = "write" /\ base'[t] = base[t] /\ Path(t)' = Path(t)
  BY <1>8 DEF CreateForeign, local, Path
<1> QED
  BY <1>1, <1>2, <1>3, <1>4, <1>5, <1>6, <1>7, <1>8 DEF Next, Construct

(* The file being written stays the unfinished one this call created.      *)
LEMMA FileStep == TypeOK /\ OneCall /\ FileInv /\ [Next]_vars => FileInv'
<1> SUFFICES ASSUME TypeOK, OneCall, FileInv, [Next]_vars,
                    NEW t \in Thread, pc'[t] = "write",
                    pc[t] = "write", base'[t] = base[t], Path(t)' = Path(t)
             PROVE  tree'[base[t]][Path(t)] = "partial"
  BY WritingBefore DEF FileInv
<1>1. tree[base[t]][Path(t)] = "partial"
  BY DEF FileInv
<1>2. CASE tree' = tree
  BY <1>1, <1>2
<1>3. ASSUME NEW r \in Trees, NEW e \in Entries, NEW content \in Contents,
             tree[r][e] = "absent", tree' = [tree EXCEPT ![r][e] = content]
      PROVE  tree'[base[t]][Path(t)] = "partial"
  BY <1>1, <1>3 DEF TypeOK
<1>4. ASSUME NEW s \in Thread, pc[s] = "write", pc'[s] = "verify" PROVE FALSE
  BY <1>4, CreatorAlone DEF Creating
<1> QED  BY <1>2, <1>3, <1>4, TreeChange

(* A step leaves what is neither absent nor an unfinished file.            *)
LEMMA TreeKeeps ==
    ASSUME TypeOK, FileInv, [Next]_vars, NEW r \in Trees, NEW e \in Entries,
           tree[r][e] \notin {"absent", "partial"}
    PROVE  tree'[r][e] = tree[r][e]
<1>1. ASSUME NEW q \in Trees, NEW f \in Entries, NEW content \in Contents,
             tree[q][f] = "absent", tree' = [tree EXCEPT ![q][f] = content]
      PROVE  tree'[r][e] = tree[r][e]
  BY <1>1 DEF TypeOK
<1>2. ASSUME NEW t \in Thread, pc[t] = "write",
             tree' = [tree EXCEPT ![base[t]][Path(t)] = "whole"]
      PROVE  tree'[r][e] = tree[r][e]
  BY <1>2 DEF TypeOK, FileInv
<1> QED  BY <1>1, <1>2, TreeChange

(* No step replaces or removes an entry another program made, a directory  *)
(* or a file that was completed.                                           *)
THEOREM CreatesOnly == Spec => CreateOnly
<1>1. Init => TypeOK /\ OneCall /\ FileInv
  BY TypeInit, OneInit DEF Init, FileInv
<1>2. TypeOK /\ OneCall /\ FileInv /\ [Next]_vars => (TypeOK /\ OneCall /\ FileInv)'
  BY TypeStep, OneStep, FileStep
<1>3. TypeOK /\ FileInv /\ [Next]_vars =>
         [\A r \in Trees, e \in Entries :
             tree[r][e] \notin {"absent", "partial"} => tree'[r][e] = tree[r][e]]_vars
  BY TreeKeeps
<1> QED  BY <1>1, <1>2, <1>3, PTL DEF Spec, CreateOnly

-----------------------------------------------------------------------------
(* What a call reports.  Its receipts follow its plan action by action,    *)
(* and effect_started together with them says whether it made anything.    *)

Locals(t) == <<pc[t], calls[t], request[t], action[t], depth[t], base[t], started[t],
               receipts[t], outcome[t]>>

BatchOf(t) ==
    /\ pc[t] \in {"authorize", "consume"} =>
          receipts[t] = <<>> /\ MadeBy(t) = {} /\ outcome[t] = "none"
    /\ pc[t] \in Creating =>
          /\ outcome[t] = "none"
          /\ Len(receipts[t]) + 1 = action[t]
          /\ MadeBy(t) # {} <=> receipts[t] # <<>> \/ started[t]
    /\ pc[t] \in {"write", "verify"} => \E m \in MadeBy(t) :
          m.kind = "file" /\ m.root = base[t] /\ m.entry = Path(t)
    /\ pc[t] \in Creating \/ outcome[t] # "none" =>
          /\ request[t] \in Requests
          /\ Len(receipts[t]) <= Len(request[t].plan)
          /\ \A i \in 1..Len(receipts[t]) : receipts[t][i] = request[t].plan[i]
          /\ \A m \in MadeBy(t) : m.kind = "file" =>
                \E i \in 1..Len(request[t].plan) :
                   i <= Len(receipts[t]) + 1 /\ m.entry = request[t].plan[i]
    /\ outcome[t] \notin {"none", "raised"} =>
          /\ outcome[t] = "refused" <=> MadeBy(t) = {}
          /\ outcome[t] = "created" <=> Len(receipts[t]) = Len(request[t].plan)
    /\ pc[t] = "close" => outcome[t] # "none"

CountInv == \A m \in made : m.call[2] <= calls[m.call[1]]
BatchInv == CountInv /\ \A t \in Thread : BatchOf(t)

(* A step of a call is of no account to the calls of other threads.        *)
LEMMA OtherCalls ==
    ASSUME TypeOK, NEW s \in Thread, NEW t \in Thread \ {s}, Begin(s) \/ Construct(s)
    PROVE  Locals(t)' = Locals(t) /\ MadeBy(t)' = MadeBy(t)
<1>1. CASE Begin(s) \/ Return(s)
  BY <1>1 DEF TypeOK, Begin, Return, local, history, Locals, MadeBy, Call
<1>2. CASE Authorize(s) \/ ConsumeRefused(s) \/ CloseRaises(s) \/ Fail(s)
  BY <1>2 DEF TypeOK, Authorize, ConsumeRefused, CloseRaises, Fail, Finish, history, Locals,
              MadeBy, Call
<1>3. CASE Consume(s) \/ (VerifyFile(s) /\ ~Fail(s))
  BY <1>3 DEF TypeOK, Consume, VerifyFile, StartAction, Finish, history, Locals, MadeBy, Call
<1>4. CASE (OpenDirectory(s) \/ WriteFile(s)) /\ ~Fail(s)
  BY <1>4 DEF TypeOK, OpenDirectory, WriteFile, local, history, Locals, MadeBy, Call
<1>5. CASE (MakeDirectory(s) \/ CreateFile(s)) /\ ~Fail(s)
  <2>1. /\ Locals(t)' = Locals(t) /\ Call(t)' = Call(t)
        /\ \/ made' = made
           \/ \E content \in {"directory", "partial"} : Make(s, content)
    BY <1>5 DEF TypeOK, MakeDirectory, CreateFile, Make, Locals, Call
  <2> QED  BY <2>1 DEF MadeBy, Make, Call
<1> QED  BY <1>1, <1>2, <1>3, <1>4, <1>5 DEF Construct, MakeDirectory, OpenDirectory,
            CreateFile, WriteFile, VerifyFile

(* What a call has reported stays while it is let alone.                   *)
LEMMA BatchFrame ==
    ASSUME NEW t \in Thread, BatchOf(t), Locals(t)' = Locals(t), MadeBy(t)' = MadeBy(t)
    PROVE  BatchOf(t)'
BY DEF BatchOf, Locals, Path

(* A plan has an action.                                                   *)
LEMMA PlanLength == ASSUME NEW q \in Requests PROVE Len(q.plan) \in Nat \ {0}
BY PlanShape, FileConstructionConstants

(* Until it has consumed the handle a call has done nothing.               *)
LEMMA BatchBegin ==
    ASSUME TypeOK, CountInv, NEW t \in Thread, BatchOf(t),
           Begin(t) \/ Authorize(t) \/ Consume(t) \/ ConsumeRefused(t)
    PROVE  BatchOf(t)'
<1>1. CASE Begin(t)
  <2>1. /\ pc'[t] = "authorize" /\ receipts'[t] = <<>> /\ outcome'[t] = "none"
        /\ made' = made /\ Call(t)' = <<t, calls[t] + 1>>
    BY <1>1 DEF TypeOK, Begin, history, Call
  <2>2. \A m \in made : m.call # <<t, calls[t] + 1>>
    BY FileConstructionConstants DEF TypeOK, CountInv, Made, CallId
  <2> QED  BY <2>1, <2>2 DEF BatchOf, MadeBy, Creating
<1>2. CASE Authorize(t) \/ ConsumeRefused(t)
  <2>1. /\ receipts[t] = <<>> /\ MadeBy(t) = {} /\ outcome[t] = "none"
        /\ request[t] \in Requests
    BY <1>2 DEF TypeOK, BatchOf, Authorize, ConsumeRefused
  <2>2. UNCHANGED <<request, receipts, made, calls>> /\ MadeBy(t)' = MadeBy(t)
    BY <1>2 DEF Authorize, ConsumeRefused, history, MadeBy, Call
  <2>3. \/ pc'[t] = "consume" /\ outcome'[t] = outcome[t]
        \/ pc'[t] = "close" /\ outcome'[t] = "refused"
    BY <1>2 DEF TypeOK, Authorize, ConsumeRefused, Finish
  <2> QED  BY <2>1, <2>2, <2>3, PlanLength DEF BatchOf, Creating
<1>3. CASE Consume(t)
  <2>1. /\ receipts[t] = <<>> /\ MadeBy(t) = {} /\ outcome[t] = "none"
        /\ request[t] \in Requests
    BY <1>3 DEF TypeOK, BatchOf, Consume
  <2>2. UNCHANGED <<request, receipts, outcome, made, calls>> /\ MadeBy(t)' = MadeBy(t)
    BY <1>3 DEF Consume, history, MadeBy, Call
  <2>3. pc'[t] \in {"create", "directory"} /\ action'[t] = 1 /\ started'[t] = FALSE
    BY <1>3 DEF TypeOK, Consume, StartAction
  <2> QED  BY <2>1, <2>2, <2>3, PlanLength DEF BatchOf, Creating
<1> QED  BY <1>1, <1>2, <1>3

(* A call that stops says whether there were effects.                      *)
LEMMA BatchStops ==
    ASSUME TypeOK, NEW t \in Thread, BatchOf(t), pc[t] \in Creating, Fail(t) \/ CloseRaises(t)
    PROVE  BatchOf(t)'
<1>1. /\ UNCHANGED <<request, receipts, made, calls>> /\ MadeBy(t)' = MadeBy(t)
      /\ pc'[t] = "close"
  BY DEF TypeOK, Fail, CloseRaises, Finish, history, MadeBy, Call
<1>2. \/ outcome'[t] = "raised"
      \/ outcome'[t] = IF receipts[t] # <<>> \/ started[t] THEN "partial" ELSE "refused"
  BY DEF TypeOK, Fail, CloseRaises, Finish
<1>3. /\ request[t] \in Requests /\ Len(receipts[t]) + 1 = action[t]
      /\ MadeBy(t) # {} <=> receipts[t] # <<>> \/ started[t]
  BY DEF BatchOf
<1>4. Len(receipts[t]) \in Nat /\ Len(receipts[t]) < Len(request[t].plan)
  BY <1>3, PlanLength DEF TypeOK, OnPath
<1> QED  BY <1>1, <1>2, <1>3, <1>4 DEF BatchOf, Creating

(* What is made is made by the call under way.                             *)
LEMMA MakeAdds ==
    ASSUME NEW t \in Thread, NEW content \in {"directory", "partial"}, Make(t, content),
           calls' = calls
    PROVE  \E new \in made' :
              /\ MadeBy(t)' = MadeBy(t) \cup {new}
              /\ new.root = Directory(t) /\ new.entry = Entry(t)
              /\ new.kind = IF content = "directory" THEN "directory" ELSE "file"
<1> DEFINE new == [call |-> Call(t), root |-> Directory(t), entry |-> Entry(t),
                   kind |-> IF content = "directory" THEN "directory" ELSE "file"]
<1>1. made' = made \cup {new} /\ Call(t)' = Call(t)
  BY DEF Make, Call
<1>2. MadeBy(t)' = MadeBy(t) \cup {new} /\ new \in made'
  BY <1>1 DEF MadeBy
<1>3. /\ new.root = Directory(t) /\ new.entry = Entry(t)
      /\ new.kind = IF content = "directory" THEN "directory" ELSE "file"
  OBVIOUS
<1> HIDE DEF new
<1> QED  BY <1>2, <1>3

(* The steps that open a directory or write a file leave what was made.    *)
LEMMA BatchQuiet ==
    ASSUME TypeOK, NEW t \in Thread, BatchOf(t), ~Fail(t),
           \/ OpenDirectory(t) \/ WriteFile(t)
           \/ MakeDirectory(t) /\ UNCHANGED <<made, started>>
    PROVE  BatchOf(t)'
<1>1. /\ UNCHANGED <<request, receipts, outcome, calls, action, made, started>>
      /\ pc[t] \in Creating /\ pc'[t] \in Creating
      /\ pc'[t] \in {"write", "verify"} => pc[t] = "write" /\ base' = base
  BY DEF TypeOK, MakeDirectory, OpenDirectory, WriteFile, local, history, Creating
<1>2. MadeBy(t)' = MadeBy(t) /\ Path(t)' = Path(t)
  BY <1>1 DEF MadeBy, Call, Path
<1> QED  BY <1>1, <1>2 DEF BatchOf, Creating

(* The steps that make an entry have effects from then on.                 *)
LEMMA BatchMakes ==
    ASSUME TypeOK, NEW t \in Thread, BatchOf(t), ~Fail(t),
           \/ CreateFile(t)
           \/ MakeDirectory(t) /\ ~UNCHANGED <<made, started>>
    PROVE  BatchOf(t)'
<1>1. PICK content \in {"directory", "partial"} :
         /\ Make(t, content)
         /\ content = "partial" =>
               pc[t] = "create" /\ base' = [base EXCEPT ![t] = Directory(t)]
         /\ pc'[t] \in {"open", "write"} /\ (pc'[t] = "write" => content = "partial")
         /\ UNCHANGED <<request, receipts, outcome, calls, action>>
         /\ pc[t] \in Creating
  BY DEF TypeOK, MakeDirectory, CreateFile, Creating
<1>2. PICK new \in made' :
         /\ MadeBy(t)' = MadeBy(t) \cup {new}
         /\ new.root = Directory(t) /\ new.entry = Entry(t)
         /\ new.kind = IF content = "directory" THEN "directory" ELSE "file"
  BY <1>1, MakeAdds
<1>3. /\ outcome[t] = "none" /\ request[t] \in Requests /\ Len(receipts[t]) + 1 = action[t]
      /\ Len(receipts[t]) <= Len(request[t].plan)
      /\ \A i \in 1..Len(receipts[t]) : receipts[t][i] = request[t].plan[i]
  BY <1>1 DEF BatchOf
<1>4. started'[t] = TRUE /\ Path(t)' = Path(t) /\ pc'[t] \in Creating /\ pc'[t] # "verify"
  BY <1>1 DEF TypeOK, Make, Path, Creating
<1>5. new.kind = "file" =>
         /\ new.entry = Path(t) /\ new.root = base'[t]
         /\ action[t] \in 1..Len(request[t].plan) /\ action[t] <= Len(receipts[t]) + 1
  <2> SUFFICES ASSUME new.kind = "file"
               PROVE  /\ new.entry = Path(t) /\ new.root = base'[t]
                      /\ action[t] \in 1..Len(request[t].plan) /\ action[t] <= Len(receipts[t]) + 1
    OBVIOUS
  <2>1. content = "partial"
    BY <1>2
  <2>2. new.entry = Path(t) /\ new.root = base'[t]
    BY <1>1, <1>2, <2>1, EntryIsPath DEF TypeOK
  <2>3. action[t] \in 1..Len(request[t].plan)
    BY <1>1, <1>3, PlanLength, FileConstructionConstants DEF TypeOK, OnPath
  <2> QED  BY <1>3, <2>2, <2>3
<1>6. ASSUME NEW m \in MadeBy(t)', m.kind = "file"
      PROVE  \E i \in 1..Len(request[t].plan) :
                i <= Len(receipts[t]) + 1 /\ m.entry = request[t].plan[i]
  <2>1. CASE m \in MadeBy(t)
    BY <1>1, <1>6, <2>1 DEF BatchOf
  <2>2. CASE m = new
    BY <1>5, <1>6, <2>2 DEF Path
  <2> QED  BY <1>2, <1>6, <2>1, <2>2
<1>7. pc'[t] = "write" => \E m \in MadeBy(t)' :
         m.kind = "file" /\ m.root = base'[t] /\ m.entry = Path(t)'
  BY <1>1, <1>2, <1>4, <1>5
<1>8. MadeBy(t)' # {}
  BY <1>2
<1> QED  BY <1>1, <1>3, <1>4, <1>6, <1>7, <1>8 DEF BatchOf, Creating

(* A verified action has its receipt, and the last one ends the plan.      *)
LEMMA BatchVerifies ==
    ASSUME TypeOK, NEW t \in Thread, BatchOf(t), VerifyFile(t), ~Fail(t)
    PROVE  BatchOf(t)'
<1>1. /\ pc[t] = "verify" /\ pc[t] \in Creating
      /\ receipts' = [receipts EXCEPT ![t] = Append(@, Path(t))]
      /\ UNCHANGED <<request, calls, made>>
  BY DEF VerifyFile, history, Creating
<1>2. /\ outcome[t] = "none" /\ request[t] \in Requests /\ Len(receipts[t]) + 1 = action[t]
      /\ \A i \in 1..Len(receipts[t]) : receipts[t][i] = request[t].plan[i]
  BY <1>1 DEF BatchOf
<1>3. /\ receipts'[t] = Append(receipts[t], Path(t)) /\ Len(receipts[t]) \in Nat
      /\ receipts[t] \in Seq(Paths) /\ Path(t) \in Paths
      /\ action[t] <= Len(request[t].plan) /\ Len(request[t].plan) \in Nat
  BY <1>1, <1>2, AtEntry, PlanLength DEF TypeOK, OnPath
<1>4. Len(receipts'[t]) = action[t] /\ receipts'[t] # <<>>
  BY <1>2, <1>3
<1>5. \A i \in 1..Len(receipts'[t]) : receipts'[t][i] = request[t].plan[i]
  BY <1>2, <1>3, <1>4 DEF Path
<1>6. MadeBy(t)' = MadeBy(t) /\ MadeBy(t) # {}
  BY <1>1 DEF MadeBy, Call, BatchOf
<1>7. \A m \in MadeBy(t) : m.kind = "file" =>
         \E i \in 1..Len(request[t].plan) :
            i <= Len(receipts'[t]) + 1 /\ m.entry = request[t].plan[i]
  <2> SUFFICES ASSUME NEW m \in MadeBy(t), m.kind = "file"
               PROVE  \E i \in 1..Len(request[t].plan) :
                         i <= Len(receipts'[t]) + 1 /\ m.entry = request[t].plan[i]
    OBVIOUS
  <2>1. PICK i \in 1..Len(request[t].plan) :
           i <= Len(receipts[t]) + 1 /\ m.entry = request[t].plan[i]
    BY <1>1 DEF BatchOf
  <2> QED  BY <2>1, <1>2, <1>3, <1>4
<1>8. \/ /\ action[t] < Len(request[t].plan)
         /\ pc'[t] \in {"create", "directory"} /\ outcome' = outcome
         /\ action'[t] = action[t] + 1
      \/ /\ action[t] = Len(request[t].plan) /\ pc'[t] = "close" /\ outcome'[t] = "created"
  <2>1. CASE action[t] < Len(request[t].plan)
    BY <2>1 DEF TypeOK, VerifyFile, StartAction
  <2>2. CASE ~(action[t] < Len(request[t].plan))
    <3>1. Finish(t, "created")
      BY <2>2 DEF VerifyFile
    <3>2. action[t] = Len(request[t].plan)
      BY <2>2, <1>2, <1>3
    <3> QED  BY <3>1, <3>2 DEF TypeOK, Finish
  <2> QED  BY <2>1, <2>2
<1>9. /\ request'[t] = request[t] /\ request[t] \in Requests
      /\ Len(receipts'[t]) <= Len(request[t].plan)
      /\ Len(receipts'[t]) = action[t]
  BY <1>1, <1>2, <1>3, <1>4
<1> QED  BY <1>2, <1>4, <1>5, <1>6, <1>7, <1>8, <1>9 DEF BatchOf, Creating

(* No call has begun, and none has reported.                               *)
LEMMA BatchInit == Init => BatchInv
BY DEF Init, BatchInv, BatchOf, CountInv, Creating

(* Every entry is of a call that has begun.                                *)
LEMMA CountStep == TypeOK /\ CountInv /\ [Next]_vars => CountInv'
<1> SUFFICES ASSUME TypeOK, CountInv, [Next]_vars PROVE CountInv'
  OBVIOUS
<1>1. CASE made' # made
  <2>1. PICK t \in Thread, content \in {"directory", "partial"} :
           Make(t, content) /\ UNCHANGED calls
    BY <1>1, MadeByCreating
  <2>2. \A m \in made' : m \in made \/ m.call = Call(t)
    BY <2>1 DEF Make
  <2>3. calls[t] \in Nat
    BY FileConstructionConstants DEF TypeOK
  <2> QED  BY <2>1, <2>2, <2>3 DEF CountInv, Call
<1>2. CASE made' = made
  <2>1. calls' = calls \/ \E t \in Thread : calls' = [calls EXCEPT ![t] = @ + 1]
    <3>1. ASSUME NEW t \in Thread, AcquireHandle(t) \/ LeaveHandle(t)
          PROVE  calls' = calls
      BY <3>1 DEF AcquireHandle, LeaveHandle
    <3>2. ASSUME NEW t \in Thread, Begin(t)
          PROVE  calls' = [calls EXCEPT ![t] = @ + 1]
      BY <3>2 DEF Begin
    <3>3. ASSUME NEW t \in Thread, Construct(t) PROVE calls' = calls
      BY <3>3 DEF Construct, Authorize, Consume, ConsumeRefused, MakeDirectory, OpenDirectory,
                  CreateFile, WriteFile, VerifyFile, CloseRaises, Return, Fail
    <3>4. CASE ReuseNumber \/ UNCHANGED vars
      BY <3>4 DEF ReuseNumber, vars
    <3>5. ASSUME NEW e \in Entries, NEW content \in {"foreign", "directory"},
                 CreateForeign(e, content)
          PROVE  calls' = calls
      BY <3>5 DEF CreateForeign
    <3>6. ASSUME NEW t \in Thread,
                 AcquireHandle(t) \/ LeaveHandle(t) \/ Begin(t) \/ Construct(t)
          PROVE  calls' = calls \/ calls' = [calls EXCEPT ![t] = @ + 1]
      BY <3>1, <3>2, <3>3, <3>6
    <3>7. CASE \E t \in Thread :
                  AcquireHandle(t) \/ LeaveHandle(t) \/ Begin(t) \/ Construct(t)
      <4>1. PICK t \in Thread :
               AcquireHandle(t) \/ LeaveHandle(t) \/ Begin(t) \/ Construct(t)
        BY <3>7
      <4> QED  BY <3>6, <4>1
    <3>8. CASE \E e \in Entries, content \in {"foreign", "directory"} :
                  CreateForeign(e, content)
      BY <3>5, <3>8
    <3> QED  BY <3>4, <3>7, <3>8 DEF Next
  <2>2. \A m \in made : m.call[1] \in Thread /\ m.call[2] \in Nat /\ calls[m.call[1]] \in Nat
    <3>1. calls \in [Thread -> Nat] /\ made \subseteq Made /\ MaxCalls \in Nat
      BY FileConstructionConstants DEF TypeOK
    <3>2. \A m \in made : m.call \in Thread \X (1..MaxCalls)
      BY <3>1 DEF Made, CallId
    <3> QED  BY <3>1, <3>2
  <2>3. \A t \in Thread : calls'[t] \in Nat /\ calls[t] <= calls'[t]
    <3>1. calls \in [Thread -> Nat]
      BY FileConstructionConstants DEF TypeOK
    <3>2. ASSUME NEW s \in Thread, calls' = [calls EXCEPT ![s] = @ + 1]
          PROVE  \A t \in Thread : calls'[t] \in Nat /\ calls[t] <= calls'[t]
      BY <3>1, <3>2
    <3> QED  BY <2>1, <3>1, <3>2
  <2> SUFFICES ASSUME NEW m \in made PROVE m.call[2] <= calls'[m.call[1]]
    BY <1>2 DEF CountInv
  <2>4. m.call[2] <= calls[m.call[1]]
    BY DEF CountInv
  <2> QED  BY <2>2, <2>3, <2>4
<1> QED  BY <1>1, <1>2

(* Every step keeps what the calls report.                                 *)
LEMMA BatchStep == TypeOK /\ BatchInv /\ [Next]_vars => BatchInv'
<1> SUFFICES ASSUME TypeOK, BatchInv, [Next]_vars, NEW t \in Thread PROVE BatchOf(t)'
  BY CountStep DEF BatchInv
<1>1. CountInv /\ BatchOf(t)
  BY DEF BatchInv
<1>2. ASSUME NEW s \in Thread, s # t, Begin(s) \/ Construct(s) PROVE BatchOf(t)'
  BY <1>1, <1>2, OtherCalls, BatchFrame
<1>3. ASSUME NEW s \in Thread, AcquireHandle(s) \/ LeaveHandle(s) PROVE BatchOf(t)'
  <2>1. Locals(t)' = Locals(t) /\ MadeBy(t)' = MadeBy(t)
    BY <1>3 DEF AcquireHandle, LeaveHandle, local, history, Locals, MadeBy, Call
  <2> QED  BY <1>1, <2>1, BatchFrame
<1>4. CASE ReuseNumber \/ UNCHANGED vars
  <2>1. Locals(t)' = Locals(t) /\ MadeBy(t)' = MadeBy(t)
    BY <1>4 DEF ReuseNumber, vars, local, history, Locals, MadeBy, Call
  <2> QED  BY <1>1, <2>1, BatchFrame
<1>5. ASSUME NEW e \in Entries, NEW content \in {"foreign", "directory"},
             CreateForeign(e, content)
      PROVE  BatchOf(t)'
  <2>1. Locals(t)' = Locals(t) /\ MadeBy(t)' = MadeBy(t)
    BY <1>5 DEF CreateForeign, local, Locals, MadeBy, Call
  <2> QED  BY <1>1, <2>1, BatchFrame
<1>6. CASE Begin(t) \/ Authorize(t) \/ Consume(t) \/ ConsumeRefused(t)
  BY <1>1, <1>6, BatchBegin
<1>7. CASE CloseRaises(t) \/ (pc[t] \in Creating /\ Fail(t))
  <2>1. pc[t] \in Creating
    BY <1>7 DEF CloseRaises, Creating
  <2> QED  BY <1>1, <1>7, <2>1, BatchStops
<1>8. CASE (MakeDirectory(t) \/ OpenDirectory(t) \/ CreateFile(t) \/ WriteFile(t)) /\ ~Fail(t)
  BY <1>1, <1>8, BatchQuiet, BatchMakes
<1>9. CASE VerifyFile(t) /\ ~Fail(t)
  BY <1>1, <1>9, BatchVerifies
<1>10. CASE Return(t)
  <2>1. pc[t] = "close" /\ pc'[t] = "idle" /\ UNCHANGED <<calls, local, made>>
    BY <1>10 DEF TypeOK, Return
  <2>2. MadeBy(t)' = MadeBy(t)
    BY <2>1 DEF MadeBy, Call
  <2> QED  BY <1>1, <2>1, <2>2 DEF BatchOf, local, Creating
<1>11. MakeDirectory(t) \/ OpenDirectory(t) \/ CreateFile(t) \/ WriteFile(t) \/ VerifyFile(t)
          => pc[t] \in Creating
  BY DEF MakeDirectory, OpenDirectory, CreateFile, WriteFile, VerifyFile, Creating
<1>12. CASE Construct(t)
  BY <1>6, <1>7, <1>8, <1>9, <1>10, <1>11, <1>12 DEF Construct
<1>13. CASE \E s \in Thread : AcquireHandle(s) \/ LeaveHandle(s) \/ Begin(s) \/ Construct(s)
  BY <1>2, <1>3, <1>6, <1>12, <1>13
<1> QED  BY <1>4, <1>5, <1>13 DEF Next

-----------------------------------------------------------------------------
(* Where a call is in the tree.  Directories and whole files stay, so that *)
(* what it has walked through and completed is still there.                *)

(* A creating call has walked through directories, and the file it is      *)
(* about to verify is whole.                                               *)
WalkedOf(t) ==
    /\ pc[t] = "verify" => tree[base[t]][Path(t)] = "whole"
    /\ pc[t] \in Creating => \A d \in Entries :
          IsPrefix(d, Path(t)) /\ Len(d) <= depth[t] => tree[base[t]][d] = "directory"

WalkedInv == \A t \in Thread : WalkedOf(t)

(* An entry is a sequence of at least one name.                            *)
LEMMA EntryShape ==
    ASSUME NEW d \in Entries
    PROVE  Len(d) \in Nat \ {0} /\ SubSeq(d, 1, Len(d)) = d
<1>1. PICK path \in Paths : \E n \in 1..Len(path) : d = SubSeq(path, 1, n)
  BY DEF Entries
<1>2. PICK n \in 1..Len(path) : d = SubSeq(path, 1, n)
  BY <1>1
<1> DEFINE Name == UNION {Range(q) : q \in Paths}
<1>3. path \in Seq(Name)
  BY FileConstructionConstants
<1> HIDE DEF Name
<1>4. d \in Seq(Name) /\ Len(d) = n /\ n \in Nat \ {0}
  BY <1>2, <1>3
<1> QED  BY <1>4

(* A proper first part of a path is shorter, and one of a given length is  *)
(* the path up to there.                                                   *)
LEMMA PrefixShape ==
    ASSUME NEW path \in Paths, NEW d \in Entries, IsPrefix(d, path)
    PROVE  /\ d = SubSeq(path, 1, Len(d))
           /\ d # path => Len(d) < Len(path)
<1>1. Len(d) <= Len(path) /\ SubSeq(d, 1, Len(d)) = SubSeq(path, 1, Len(d))
  BY DEF IsPrefix
<1> QED  BY <1>1, EntryShape, PathIsEntry

(* Below the first directory a call has a descriptor, of a tree.           *)
LEMMA BaseIsTree ==
    ASSUME TypeOK, NEW t \in Thread, pc[t] \in Creating
    PROVE  /\ pc[t] \in {"write", "verify"} => base[t] \in Trees
           /\ \A d \in Entries : Len(d) <= depth[t] => base[t] \in Trees /\ depth[t] > 0
<1>1. OnPath(t) /\ depth[t] \in Nat
  BY DEF TypeOK
<1> QED  BY <1>1, EntryShape DEF OnPath

(* What a call has walked through stays while the call stands still.       *)
LEMMA WalkedFrame ==
    ASSUME TypeOK, FileInv, [Next]_vars, NEW t \in Thread, WalkedOf(t),
           UNCHANGED <<base[t], depth[t], request[t], action[t]>>,
           pc'[t] = "verify" => pc[t] = "verify",
           pc'[t] \in Creating => pc[t] \in Creating
    PROVE  WalkedOf(t)'
<1>1. Path(t)' = Path(t)
  BY DEF Path
<1>2. pc'[t] = "verify" => tree'[base[t]][Path(t)] = "whole"
  <2> SUFFICES ASSUME pc[t] = "verify" PROVE tree'[base[t]][Path(t)] = "whole"
    OBVIOUS
  <2>1. pc[t] \in Creating
    BY DEF Creating
  <2>2. tree[base[t]][Path(t)] = "whole" /\ base[t] \in Trees /\ Path(t) \in Entries
    BY <2>1, AtEntry, BaseIsTree DEF WalkedOf
  <2> QED  BY <2>2, TreeKeeps
<1>3. ASSUME pc'[t] \in Creating, NEW d \in Entries, IsPrefix(d, Path(t)), Len(d) <= depth[t]
      PROVE  tree'[base[t]][d] = "directory"
  <2>1. tree[base[t]][d] = "directory" /\ base[t] \in Trees
    BY <1>3, BaseIsTree DEF WalkedOf
  <2> QED  BY <2>1, TreeKeeps
<1> QED  BY <1>1, <1>2, <1>3 DEF WalkedOf

(* A call that opens a directory or creates a file has walked so far.      *)
LEMMA WalkedOn ==
    ASSUME TypeOK, FileInv, [Next]_vars, NEW t \in Thread, WalkedOf(t), ~Fail(t),
           OpenDirectory(t) \/ CreateFile(t)
    PROVE  WalkedOf(t)'
<1>1. /\ pc[t] \in Creating /\ pc'[t] # "verify" /\ Directory(t) \in Trees
      /\ base'[t] = Directory(t) /\ Path(t)' = Path(t)
      /\ \/ OpenDirectory(t) /\ depth'[t] = depth[t] + 1
         \/ depth'[t] = depth[t]
  BY DEF TypeOK, OpenDirectory, CreateFile, Creating, Path
<1>2. depth[t] \in Nat /\ Path(t) \in Paths /\ Entry(t) \in Entries
  BY <1>1, AtEntry DEF TypeOK
<1>3. ASSUME NEW d \in Entries, IsPrefix(d, Path(t)), Len(d) <= depth'[t]
      PROVE  tree'[Directory(t)][d] = "directory"
  <2>1. CASE Len(d) <= depth[t]
    <3>1. tree[base[t]][d] = "directory" /\ depth[t] > 0
      BY <1>1, <1>3, <2>1, BaseIsTree DEF WalkedOf
    <3>2. Directory(t) = base[t]
      BY <3>1, <1>2 DEF Directory
    <3> QED  BY <1>1, <3>1, <3>2, TreeKeeps
  <2>2. CASE ~(Len(d) <= depth[t])
    <3>1. OpenDirectory(t) /\ Len(d) = depth[t] + 1
      BY <1>1, <1>2, <1>3, <2>2, EntryShape
    <3>2. d = Entry(t)
      BY <1>2, <1>3, <3>1, PrefixShape DEF Entry
    <3>3. tree[Directory(t)][Entry(t)] = "directory"
      BY <3>1 DEF OpenDirectory
    <3> QED  BY <1>1, <1>2, <3>2, <3>3, TreeKeeps
  <2> QED  BY <2>1, <2>2
<1> QED  BY <1>1, <1>3 DEF WalkedOf

(* Every step leaves a creating call below directories that exist.         *)
LEMMA WalkedStep == TypeOK /\ FileInv /\ WalkedInv /\ [Next]_vars => WalkedInv'
<1> SUFFICES ASSUME TypeOK, FileInv, WalkedInv, [Next]_vars, NEW t \in Thread
             PROVE  WalkedOf(t)'
  BY DEF WalkedInv
<1>1. WalkedOf(t)
  BY DEF WalkedInv
<1>2. ASSUME Locals(t)' = Locals(t) PROVE WalkedOf(t)'
  BY <1>1, <1>2, WalkedFrame DEF Locals
<1>3. ASSUME NEW s \in Thread, s # t, Begin(s) \/ Construct(s) PROVE WalkedOf(t)'
  BY <1>2, <1>3, OtherCalls
<1>4. ASSUME NEW s \in Thread, AcquireHandle(s) \/ LeaveHandle(s) PROVE WalkedOf(t)'
  BY <1>2, <1>4 DEF AcquireHandle, LeaveHandle, local, Locals
<1>5. CASE ReuseNumber \/ UNCHANGED vars
  BY <1>2, <1>5 DEF ReuseNumber, vars, local, Locals
<1>6. ASSUME NEW e \in Entries, NEW content \in {"foreign", "directory"},
             CreateForeign(e, content)
      PROVE  WalkedOf(t)'
  BY <1>2, <1>6 DEF CreateForeign, local, Locals
<1>7. CASE Begin(t) \/ Authorize(t) \/ ConsumeRefused(t) \/ CloseRaises(t) \/ Fail(t) \/ Return(t)
  <2>1. pc'[t] \notin Creating
    BY <1>7 DEF TypeOK, Begin, Authorize, ConsumeRefused, CloseRaises, Fail, Return, Finish,
                Creating
  <2> QED  BY <2>1 DEF WalkedOf, Creating
<1>8. CASE Consume(t) \/ (VerifyFile(t) /\ ~Fail(t))
  <2>1. pc'[t] \notin Creating \/ (pc'[t] # "verify" /\ depth'[t] = 0)
    BY <1>8 DEF TypeOK, Consume, VerifyFile, StartAction, Finish, Creating
  <2> QED  BY <2>1, EntryShape DEF WalkedOf, Creating
<1>9. CASE (OpenDirectory(t) \/ CreateFile(t)) /\ ~Fail(t)
  BY <1>1, <1>9, WalkedOn
<1>10. CASE MakeDirectory(t) /\ ~Fail(t)
  <2>1. /\ UNCHANGED <<base, depth, request, action>>
        /\ pc[t] \in Creating /\ pc'[t] # "verify"
    BY <1>10 DEF TypeOK, MakeDirectory, Creating
  <2> QED  BY <1>1, <2>1, WalkedFrame
<1>11. CASE WriteFile(t) /\ ~Fail(t)
  <2>1. /\ UNCHANGED <<base, depth, request, action>> /\ Path(t)' = Path(t)
        /\ pc[t] = "write" /\ pc[t] \in Creating
        /\ tree' = [tree EXCEPT ![base[t]][Path(t)] = "whole"]
    BY <1>11 DEF WriteFile, local, Creating, Path
  <2>2. base[t] \in Trees /\ Path(t) \in Entries
    BY <2>1, AtEntry, BaseIsTree
  <2>3. tree'[base[t]][Path(t)] = "whole"
    BY <2>1, <2>2 DEF TypeOK
  <2>4. ASSUME NEW d \in Entries, IsPrefix(d, Path(t)), Len(d) <= depth[t]
        PROVE  tree'[base[t]][d] = "directory"
    <3>1. tree[base[t]][d] = "directory"
      BY <1>1, <2>1, <2>4 DEF WalkedOf
    <3> QED  BY <2>2, <3>1, TreeKeeps
  <2> QED  BY <2>1, <2>3, <2>4 DEF WalkedOf
<1>12. CASE Construct(t)
  BY <1>7, <1>8, <1>9, <1>10, <1>11, <1>12
     DEF Construct, OpenDirectory, CreateFile, WriteFile, MakeDirectory, VerifyFile
<1>13. CASE \E s \in Thread : AcquireHandle(s) \/ LeaveHandle(s) \/ Begin(s) \/ Construct(s)
  BY <1>3, <1>4, <1>7, <1>12, <1>13
<1> QED  BY <1>5, <1>6, <1>13 DEF Next

(* A file of thread t's call that is whole, at a path that exists.         *)
WholeAt(t, path) == \E m \in MadeBy(t) :
    /\ m.entry = path /\ m.kind = "file"
    /\ tree[m.root][m.entry] = "whole"
    /\ \A d \in Entries : IsStrictPrefix(d, m.entry) => tree[m.root][d] = "directory"

(* A whole file and its directories stay.                                  *)
LEMMA WholeStays ==
    ASSUME TypeOK, FileInv, [Next]_vars, NEW t \in Thread, NEW path, WholeAt(t, path),
           MadeBy(t) \subseteq MadeBy(t)'
    PROVE  WholeAt(t, path)'
<1>1. PICK m \in MadeBy(t) :
         /\ m.entry = path /\ m.kind = "file"
         /\ tree[m.root][m.entry] = "whole"
         /\ \A d \in Entries : IsStrictPrefix(d, m.entry) => tree[m.root][d] = "directory"
  BY DEF WholeAt
<1>2. m.root \in Trees /\ m.entry \in Entries
  BY DEF TypeOK, MadeBy, Made
<1>3. tree'[m.root][m.entry] = "whole"
  BY <1>1, <1>2, TreeKeeps
<1>4. \A d \in Entries : IsStrictPrefix(d, m.entry) => tree'[m.root][d] = "directory"
  BY <1>1, <1>2, TreeKeeps
<1> QED  BY <1>1, <1>3, <1>4 DEF WholeAt

(* A call that begins has no receipts, one that verified a file one more,  *)
(* and any other step leaves receipts and what was made.                   *)
LEMMA ReceiptsBefore ==
    ASSUME TypeOK, [Next]_vars, NEW t \in Thread
    PROVE  \/ receipts'[t] = <<>>
           \/ receipts'[t] = receipts[t] /\ MadeBy(t) \subseteq MadeBy(t)'
           \/ /\ pc[t] = "verify" /\ receipts'[t] = Append(receipts[t], Path(t))
              /\ MadeBy(t)' = MadeBy(t)
<1>1. ASSUME Locals(t)' = Locals(t), made \subseteq made'
      PROVE  receipts'[t] = receipts[t] /\ MadeBy(t) \subseteq MadeBy(t)'
  BY <1>1 DEF Locals, MadeBy, Call
<1>2. ASSUME NEW s \in Thread, s # t, Begin(s) \/ Construct(s)
      PROVE  receipts'[t] = receipts[t] /\ MadeBy(t) \subseteq MadeBy(t)'
  BY <1>2, OtherCalls DEF Locals
<1>3. ASSUME NEW s \in Thread, AcquireHandle(s) \/ LeaveHandle(s)
      PROVE  receipts'[t] = receipts[t] /\ MadeBy(t) \subseteq MadeBy(t)'
  BY <1>1, <1>3 DEF AcquireHandle, LeaveHandle, local, history, Locals
<1>4. CASE ReuseNumber \/ UNCHANGED vars
  BY <1>1, <1>4 DEF ReuseNumber, vars, local, history, Locals
<1>5. ASSUME NEW e \in Entries, NEW content \in {"foreign", "directory"},
             CreateForeign(e, content)
      PROVE  receipts'[t] = receipts[t] /\ MadeBy(t) \subseteq MadeBy(t)'
  BY <1>1, <1>5 DEF CreateForeign, local, Locals
<1>6. CASE Begin(t)
  BY <1>6 DEF TypeOK, Begin
<1>7. CASE VerifyFile(t) /\ ~Fail(t)
  BY <1>7 DEF TypeOK, VerifyFile, history, MadeBy, Call
<1>8. CASE Construct(t) /\ ~(VerifyFile(t) /\ ~Fail(t))
  <2>1. UNCHANGED <<receipts, calls>>
    BY <1>8 DEF Construct, Authorize, Consume, ConsumeRefused, MakeDirectory, OpenDirectory,
                CreateFile, WriteFile, VerifyFile, CloseRaises, Return, Fail, local
  <2>2. made \subseteq made'
    BY MadeByCreating DEF Make
  <2> QED  BY <2>1, <2>2 DEF MadeBy, Call
<1>9. CASE \E s \in Thread : AcquireHandle(s) \/ LeaveHandle(s) \/ Begin(s) \/ Construct(s)
  BY <1>2, <1>3, <1>6, <1>7, <1>8, <1>9
<1> QED  BY <1>4, <1>5, <1>9 DEF Next

(* Every step keeps the files that have a receipt.                         *)
LEMMA ReceiptedStep ==
    TypeOK /\ FileInv /\ BatchInv /\ WalkedInv /\ ReceiptedIsWhole /\ [Next]_vars
    => ReceiptedIsWhole'
<1> SUFFICES ASSUME TypeOK, FileInv, BatchInv, WalkedInv, ReceiptedIsWhole, [Next]_vars,
                    NEW t \in Thread, NEW i \in DOMAIN receipts'[t],
                    NEW path, path = receipts'[t][i]
             PROVE  WholeAt(t, path)'
  BY DEF ReceiptedIsWhole, WholeAt
<1>1. ASSUME NEW j \in DOMAIN receipts[t], path = receipts[t][j] PROVE WholeAt(t, path)
  BY <1>1 DEF ReceiptedIsWhole, WholeAt
<1>2. CASE receipts'[t] = receipts[t] /\ MadeBy(t) \subseteq MadeBy(t)'
  <2>1. WholeAt(t, path)
    BY <1>1, <1>2
  <2> QED  BY <1>2, <2>1, WholeStays
<1>3. CASE /\ pc[t] = "verify" /\ receipts'[t] = Append(receipts[t], Path(t))
           /\ MadeBy(t)' = MadeBy(t)
  <2>1. /\ receipts[t] \in Seq(Paths) /\ Path(t) \in Paths /\ Path(t) \in Entries
        /\ pc[t] \in Creating
    BY <1>3, AtEntry DEF TypeOK, Creating
  <2>2. WholeAt(t, path)
    <3>1. CASE i \in DOMAIN receipts[t]
      <4>1. path = receipts[t][i]
        BY <1>3, <2>1, <3>1
      <4> QED  BY <1>1, <3>1, <4>1
    <3>2. CASE i \notin DOMAIN receipts[t]
      <4>1. path = Path(t)
        BY <1>3, <2>1, <3>2
      <4>2. PICK m \in MadeBy(t) : m.kind = "file" /\ m.root = base[t] /\ m.entry = Path(t)
        BY <1>3 DEF BatchInv, BatchOf
      <4>3. WalkedOf(t) /\ OnPath(t) /\ depth[t] \in Nat
        BY <2>1 DEF WalkedInv, TypeOK
      <4>4. tree[base[t]][Path(t)] = "whole"
        BY <1>3, <4>3 DEF WalkedOf
      <4>5. ASSUME NEW d \in Entries, IsStrictPrefix(d, Path(t))
            PROVE  tree[base[t]][d] = "directory"
        <5>1. IsPrefix(d, Path(t)) /\ d # Path(t)
          BY <4>5 DEF IsStrictPrefix
        <5>2. Len(d) <= depth[t]
          BY <1>3, <2>1, <4>3, <5>1, PrefixShape, EntryShape, PathIsEntry DEF OnPath
        <5> QED  BY <2>1, <4>3, <5>1, <5>2 DEF WalkedOf
      <4> QED  BY <4>1, <4>2, <4>4, <4>5 DEF WholeAt
    <3> QED  BY <3>1, <3>2
  <2> QED  BY <1>3, <2>2, WholeStays
<1> QED  BY <1>2, <1>3, ReceiptsBefore

(* The inductive invariant of the batches: with what each call reports and *)
(* where it is, the receipted files.                                       *)
ReportInv == OneCall /\ FileInv /\ BatchInv /\ WalkedInv /\ ReceiptedIsWhole

(* At first nothing is reported.                                           *)
LEMMA ReportInit == Init => ReportInv
<1>1. Init => FileInv /\ WalkedInv /\ ReceiptedIsWhole
  BY DEF Init, FileInv, WalkedInv, WalkedOf, ReceiptedIsWhole, Creating
<1> QED  BY <1>1, OneInit, BatchInit DEF ReportInv

(* Every step keeps it.                                                    *)
LEMMA ReportStep == TypeOK /\ ReportInv /\ [Next]_vars => ReportInv'
BY OneStep, FileStep, BatchStep, WalkedStep, ReceiptedStep DEF ReportInv

(* A sequence that agrees with another as far as it goes is its prefix.    *)
LEMMA AgreeingPrefix ==
    ASSUME NEW S, NEW s \in Seq(S), NEW u \in Seq(S), Len(s) <= Len(u),
           \A i \in 1..Len(s) : s[i] = u[i]
    PROVE  IsPrefix(s, u) /\ (s = u <=> Len(s) = Len(u))
<1>1. SubSeq(s, 1, Len(s)) = s
  OBVIOUS
<1>2. SubSeq(u, 1, Len(s)) \in Seq(S) /\ Len(SubSeq(u, 1, Len(s))) = Len(s)
  OBVIOUS
<1>3. \A i \in 1..Len(s) : SubSeq(u, 1, Len(s))[i] = s[i]
  OBVIOUS
<1>4. SubSeq(u, 1, Len(s)) = s
  BY <1>2, <1>3, SeqEqual
<1>5. Len(s) = Len(u) => s = u
  BY SeqEqual
<1> QED  BY <1>1, <1>4, <1>5 DEF IsPrefix

(* What is known of a call's batch is what its disposition promises.       *)
LEMMA ReportIsTruthful == TypeOK /\ BatchInv /\ ReceiptedIsWhole => OutcomeIsTruthful
<1> SUFFICES ASSUME TypeOK, BatchInv, ReceiptedIsWhole,
                    NEW t \in Thread, outcome[t] \notin {"none", "raised"}
             PROVE  LET plan == request[t].plan
                        done == receipts[t]
                        files == {m.entry : m \in {f \in MadeBy(t) : f.kind = "file"}}
                    IN  /\ outcome[t] = "refused" <=> MadeBy(t) = {}
                        /\ outcome[t] = "created" <=> done = plan
                        /\ IsPrefix(done, plan)
                        /\ Range(done) \subseteq files
                        /\ files \subseteq {plan[i] : i \in DOMAIN plan \cap 1..(Len(done) + 1)}
  BY DEF OutcomeIsTruthful
<1> DEFINE plan == request[t].plan
           done == receipts[t]
           files == {m.entry : m \in {f \in MadeBy(t) : f.kind = "file"}}
<1>1. BatchOf(t) /\ done \in Seq(Paths)
  BY DEF BatchInv, TypeOK
<1>2. /\ request[t] \in Requests /\ Len(done) <= Len(plan)
      /\ \A i \in 1..Len(done) : done[i] = plan[i]
      /\ outcome[t] = "refused" <=> MadeBy(t) = {}
      /\ outcome[t] = "created" <=> Len(done) = Len(plan)
  BY <1>1 DEF BatchOf
<1>3. plan \in Seq(Paths) /\ DOMAIN plan = 1..Len(plan)
  <2>1. PICK n \in 1..MaxActions : plan \in [1..n -> Paths]
    BY <1>2 DEF Requests, Plans
  <2> QED  BY <2>1, FileConstructionConstants
<1>4. IsPrefix(done, plan) /\ (done = plan <=> Len(done) = Len(plan))
  BY <1>1, <1>2, <1>3, AgreeingPrefix
<1>5. Range(done) \subseteq files
  BY DEF ReceiptedIsWhole, Range
<1>6. files \subseteq {plan[i] : i \in DOMAIN plan \cap 1..(Len(done) + 1)}
  <2> SUFFICES ASSUME NEW m \in MadeBy(t), m.kind = "file"
               PROVE  \E i \in DOMAIN plan \cap 1..(Len(done) + 1) : m.entry = plan[i]
    OBVIOUS
  <2>1. PICK i \in 1..Len(plan) : i <= Len(done) + 1 /\ m.entry = plan[i]
    BY <1>1 DEF BatchOf
  <2> QED  BY <1>1, <1>3, <2>1
<1> QED  BY <1>2, <1>4, <1>5, <1>6

(* The disposition a call returns says what it did, and its receipts name  *)
(* the actions of its plan that it completed, in their order.              *)
THEOREM OutcomesAreTruthful == Spec => []OutcomeIsTruthful
<1>1. Init => TypeOK /\ ReportInv
  BY TypeInit, ReportInit
<1>2. TypeOK /\ ReportInv /\ [Next]_vars => TypeOK' /\ ReportInv'
  BY TypeStep, ReportStep
<1>3. TypeOK /\ ReportInv => OutcomeIsTruthful
  BY ReportIsTruthful DEF ReportInv
<1> QED  BY <1>1, <1>2, <1>3, PTL DEF Spec

(* A file with a receipt is whole, in directories that exist, for ever.    *)
THEOREM ReceiptsStayWhole == Spec => []ReceiptedIsWhole
<1>1. Init => TypeOK /\ ReportInv
  BY TypeInit, ReportInit
<1>2. TypeOK /\ ReportInv /\ [Next]_vars => TypeOK' /\ ReportInv'
  BY TypeStep, ReportStep
<1>3. ReportInv => ReceiptedIsWhole
  BY DEF ReportInv
<1> QED  BY <1>1, <1>2, <1>3, PTL DEF Spec

-----------------------------------------------------------------------------
(* The end of a call.  Its finally clause closes the handle, whatever came *)
(* of it, and with the owner's own close all creation is over.             *)

ReturnedIsClosed ==
    \A t \in Thread : calls[t] > 0 /\ pc[t] = "idle" => handle = "closed" /\ outcome[t] # "none"

ReturnInv ==
    /\ ReturnedIsClosed
    /\ \A t \in Thread : pc[t] # "idle" => handle # "none"
    /\ \A t \in Thread : pc[t] = "close" => outcome[t] # "none"

(* Before the first call there is nothing to return.                       *)
LEMMA ReturnInit == Init => ReturnInv
BY DEF Init, ReturnInv, ReturnedIsClosed

(* A handle that was handed out stays so, and a closed one stays closed.   *)
LEMMA HandleStays ==
    ASSUME TypeOK, RootInv, [Next]_vars
    PROVE  /\ handle # "none" => handle' # "none"
           /\ handle = "closed" => handle' = "closed"
BY HandleBefore, FileConstructionConstants DEF TypeOK, RootInv

(* A step of one call leaves the other calls as they are.                  *)
LEMMA ConstructLocal ==
    ASSUME TypeOK, NEW s \in Thread, Construct(s)
    PROVE  /\ calls' = calls /\ request' = request
           /\ \A t \in Thread \ {s} : pc'[t] = pc[t] /\ outcome'[t] = outcome[t]
           /\ pc'[s] = "close" => outcome'[s] # "none"
           /\ pc'[s] = "idle" => /\ pc[s] = "close" /\ outcome'[s] = outcome[s]
                                 /\ handle # "none" => handle' = "closed"
<1>1. CASE Authorize(s) \/ ConsumeRefused(s) \/ CloseRaises(s)
  BY <1>1 DEF TypeOK, Authorize, ConsumeRefused, CloseRaises, Finish
<1>2. CASE Consume(s)
  BY <1>2 DEF TypeOK, Consume, StartAction
<1>3. CASE MakeDirectory(s) \/ OpenDirectory(s)
  BY <1>3 DEF TypeOK, MakeDirectory, OpenDirectory, Fail, Finish
<1>4. CASE CreateFile(s)
  BY <1>4 DEF TypeOK, CreateFile, Fail, Finish
<1>5. CASE WriteFile(s)
  BY <1>5 DEF TypeOK, WriteFile, Fail, Finish, local
<1>6. CASE VerifyFile(s)
  BY <1>6 DEF TypeOK, VerifyFile, StartAction, Fail, Finish
<1>7. CASE Return(s)
  BY <1>7 DEF TypeOK, Return, CloseBy, local
<1> QED  BY <1>1, <1>2, <1>3, <1>4, <1>5, <1>6, <1>7 DEF Construct

(* Every step keeps what returned calls leave.                             *)
LEMMA ReturnStep == TypeOK /\ RootInv /\ ReturnInv /\ [Next]_vars => ReturnInv'
<1> SUFFICES ASSUME TypeOK, RootInv, ReturnInv, [Next]_vars PROVE ReturnInv'
  OBVIOUS
<1>1. /\ handle # "none" => handle' # "none"
      /\ handle = "closed" => handle' = "closed"
  BY HandleStays
<1>2. CASE UNCHANGED <<pc, calls, outcome>>
  BY <1>1, <1>2 DEF ReturnInv, ReturnedIsClosed
<1>3. ASSUME NEW t \in Thread, Begin(t) PROVE ReturnInv'
  BY <1>1, <1>3 DEF TypeOK, Begin, ReturnInv, ReturnedIsClosed
<1>4. ASSUME NEW s \in Thread, Construct(s) PROVE ReturnInv'
  <2>1. /\ calls' = calls
        /\ \A t \in Thread \ {s} : pc'[t] = pc[t] /\ outcome'[t] = outcome[t]
        /\ pc'[s] = "close" => outcome'[s] # "none"
        /\ pc'[s] = "idle" => /\ pc[s] = "close" /\ outcome'[s] = outcome[s]
                              /\ handle # "none" => handle' = "closed"
    BY <1>4, ConstructLocal
  <2>2. pc[s] # "idle" /\ handle # "none"
    BY <1>4 DEF ReturnInv, Construct, Authorize, Consume, ConsumeRefused, MakeDirectory,
       OpenDirectory, CreateFile, WriteFile, VerifyFile, CloseRaises, Return
  <2> QED  BY <1>1, <2>1, <2>2 DEF ReturnInv, ReturnedIsClosed
<1>5. ASSUME NEW t \in Thread, AcquireHandle(t) \/ LeaveHandle(t) PROVE ReturnInv'
  BY <1>2, <1>5 DEF AcquireHandle, LeaveHandle, local
<1>6. CASE ReuseNumber \/ UNCHANGED vars
  BY <1>2, <1>6 DEF ReuseNumber, vars, local
<1>7. ASSUME NEW e \in Entries, NEW content \in {"foreign", "directory"},
             CreateForeign(e, content)
      PROVE  ReturnInv'
  BY <1>2, <1>7 DEF CreateForeign, local
<1> QED  BY <1>3, <1>4, <1>5, <1>6, <1>7 DEF Next

(* Once any call has returned, refused ones included, the one handle is    *)
(* closed, for whoever else is using it, and the call has an outcome: what *)
(* CallsReturn promises holds at every return (constructor.py:86-149).     *)
THEOREM ReturnsClose == Spec => []ReturnedIsClosed
<1>1. Init => TypeOK /\ RootInv /\ ReturnInv
  BY TypeInit, RootInit, ReturnInit
<1>2. TypeOK /\ RootInv /\ ReturnInv /\ [Next]_vars => TypeOK' /\ RootInv' /\ ReturnInv'
  BY TypeStep, RootStep, ReturnStep
<1>3. ReturnInv => ReturnedIsClosed
  BY DEF ReturnInv
<1> QED  BY <1>1, <1>2, <1>3, PTL DEF Spec

MakesNothing == closer = owner /\ owner # Nobody => UNCHANGED made

(* After the owner has closed the handle nothing is ever created with it:  *)
(* only a close by another thread leaves a creating call at work.          *)
THEOREM OwnersCloseIsFinal == Spec => [][MakesNothing]_vars
<1>1. TypeOK /\ OneCall /\ RootInv /\ [Next]_vars => [MakesNothing]_vars
  <2> SUFFICES ASSUME TypeOK, OneCall, RootInv, [Next]_vars,
                      closer = owner, owner # Nobody, made' # made
               PROVE  FALSE
    BY DEF MakesNothing
  <2>1. PICK t \in Thread : pc[t] \in Creating
    BY MadeByCreating
  <2> QED  BY <2>1 DEF OneCall, RootInv
<1>2. Init => TypeOK /\ OneCall /\ RootInv
  BY TypeInit, OneInit, RootInit
<1>3. TypeOK /\ OneCall /\ RootInv /\ [Next]_vars => TypeOK' /\ OneCall' /\ RootInv'
  BY TypeStep, OneStep, RootStep
<1> QED  BY <1>1, <1>2, <1>3, PTL DEF Spec

-----------------------------------------------------------------------------
(* Progress.  Every step of construct() goes on to a later action of its   *)
(* plan, a deeper directory of the action's path, or a later step there.   *)

Rank(step) ==
    CASE step = "idle" -> 0 [] step = "close" -> 1 [] step = "verify" -> 2
      [] step = "write" -> 3 [] step = "create" -> 4 [] step = "open" -> 5
      [] step = "directory" -> 6 [] step = "consume" -> 7 [] OTHER -> 8

ActionsLeft(t) == Len(request[t].plan) - action[t]
NamesLeft(t) == Len(Path(t)) - depth[t]

Onward(t) ==
    \/ /\ ~(pc[t] \in Creating /\ pc'[t] \in Creating)
       /\ Rank(pc'[t]) < Rank(pc[t])
    \/ /\ pc[t] \in Creating /\ pc'[t] \in Creating
       /\ ActionsLeft(t) \in Nat /\ NamesLeft(t) \in Nat
       /\ \/ ActionsLeft(t)' < ActionsLeft(t)
          \/ /\ ActionsLeft(t)' = ActionsLeft(t)
             /\ NamesLeft(t)' < NamesLeft(t)
          \/ /\ ActionsLeft(t)' = ActionsLeft(t)
             /\ NamesLeft(t)' = NamesLeft(t)
             /\ Rank(pc'[t]) < Rank(pc[t])

CallsGoOn ==
    \A t \in Thread :
       /\ Construct(t) => Onward(t)
       /\ pc[t] # "idle" /\ ~Construct(t) => UNCHANGED <<pc[t], request[t], action[t], depth[t]>>

(* A call that is creating files has a place in its plan and its path.     *)
LEMMA PlaceInPlan ==
    ASSUME TypeOK, NEW t \in Thread, pc[t] \in Creating
    PROVE  /\ ActionsLeft(t) \in Nat /\ NamesLeft(t) \in Nat
           /\ Len(request[t].plan) \in Nat /\ action[t] \in Nat
           /\ Len(Path(t)) \in Nat /\ depth[t] \in Nat
<1>1. /\ Len(request[t].plan) \in 1..MaxActions /\ Len(Path(t)) \in Nat \ {0}
      /\ OnPath(t)
  BY AtEntry DEF TypeOK
<1>2. /\ MaxActions \in Nat /\ action[t] \in 1..MaxActions /\ depth[t] \in Nat
  BY FileConstructionConstants DEF TypeOK
<1> QED  BY <1>1, <1>2 DEF OnPath, ActionsLeft, NamesLeft

(* A failure, a refusal and an exception lead to the finally clause.       *)
LEMMA FailsOnward ==
    ASSUME TypeOK, NEW t \in Thread, pc[t] \notin {"idle", "close"}, pc'[t] = "close"
    PROVE  Onward(t)
BY DEF Onward, Rank, Creating, Steps, TypeOK

(* Each step of a call.                                                    *)
LEMMA ConstructOnward ==
    ASSUME TypeOK, NEW t \in Thread, Construct(t)
    PROVE  Onward(t)
<1>1. ASSUME pc'[t] = "close", pc[t] # "close" PROVE Onward(t)
  <2>1. pc[t] # "idle"
    BY DEF Construct, Authorize, Consume, ConsumeRefused, MakeDirectory, OpenDirectory,
       CreateFile, WriteFile, VerifyFile, CloseRaises, Return
  <2> QED  BY <1>1, <2>1, FailsOnward
<1>2. CASE Authorize(t) \/ ConsumeRefused(t) \/ CloseRaises(t)
  <2>1. CASE pc'[t] = "close"
    BY <1>1, <1>2, <2>1 DEF Authorize, ConsumeRefused, CloseRaises
  <2>2. CASE pc'[t] # "close"
    BY <1>2, <2>2
    DEF TypeOK, Authorize, ConsumeRefused, CloseRaises, Finish, Onward, Rank, Creating
  <2> QED  BY <2>1, <2>2
<1>3. CASE Consume(t)
  <2>1. pc[t] = "consume" /\ pc'[t] \in {"create", "directory"}
    BY <1>3 DEF TypeOK, Consume, StartAction
  <2> QED  BY <2>1 DEF Onward, Rank, Creating
<1>4. CASE MakeDirectory(t) \/ CreateFile(t) \/ WriteFile(t)
  <2>1. CASE pc'[t] = "close"
    BY <1>1, <1>4, <2>1 DEF MakeDirectory, CreateFile, WriteFile
  <2>2. CASE pc'[t] # "close"
    <3>1. /\ \/ pc[t] = "directory" /\ pc'[t] = "open"
             \/ pc[t] = "create" /\ pc'[t] = "write"
             \/ pc[t] = "write" /\ pc'[t] = "verify"
          /\ UNCHANGED <<request, action, depth>>
      BY <1>4, <2>2 DEF TypeOK, MakeDirectory, CreateFile, WriteFile, Fail, Finish, local
    <3>2. pc[t] \in Creating /\ pc'[t] \in Creating /\ Rank(pc'[t]) < Rank(pc[t])
      BY <3>1 DEF Creating, Rank
    <3>3. ActionsLeft(t)' = ActionsLeft(t) /\ NamesLeft(t)' = NamesLeft(t)
      BY <3>1 DEF ActionsLeft, NamesLeft, Path
    <3> QED  BY <3>2, <3>3, PlaceInPlan DEF Onward
  <2> QED  BY <2>1, <2>2
<1>5. CASE OpenDirectory(t)
  <2>1. CASE pc'[t] = "close"
    BY <1>1, <1>5, <2>1 DEF OpenDirectory
  <2>2. CASE pc'[t] # "close"
    <3>1. /\ pc[t] = "open" /\ pc'[t] \in {"create", "directory"}
          /\ UNCHANGED <<request, action>> /\ depth'[t] = depth[t] + 1
      BY <1>5, <2>2 DEF TypeOK, OpenDirectory, Fail, Finish
    <3>2. pc[t] \in Creating /\ pc'[t] \in Creating
      BY <3>1 DEF Creating
    <3>3. ActionsLeft(t)' = ActionsLeft(t) /\ Path(t)' = Path(t)
      BY <3>1 DEF ActionsLeft, Path
    <3>4. NamesLeft(t)' < NamesLeft(t)
      BY <3>1, <3>2, <3>3, PlaceInPlan DEF NamesLeft
    <3> QED  BY <3>2, <3>3, <3>4, PlaceInPlan DEF Onward
  <2> QED  BY <2>1, <2>2
<1>6. CASE VerifyFile(t)
  <2>1. CASE pc'[t] = "close"
    BY <1>1, <1>6, <2>1 DEF VerifyFile
  <2>2. CASE pc'[t] # "close"
    <3>1. /\ pc[t] = "verify" /\ pc'[t] \in {"create", "directory"}
          /\ request' = request /\ action'[t] = action[t] + 1
      BY <1>6, <2>2 DEF TypeOK, VerifyFile, StartAction, Fail, Finish
    <3>2. pc[t] \in Creating /\ pc'[t] \in Creating
      BY <3>1 DEF Creating
    <3>3. ActionsLeft(t)' < ActionsLeft(t)
      BY <3>1, <3>2, PlaceInPlan DEF ActionsLeft
    <3> QED  BY <3>2, <3>3, PlaceInPlan DEF Onward
  <2> QED  BY <2>1, <2>2
<1>7. CASE Return(t)
  BY <1>7 DEF TypeOK, Return, Onward, Rank, Creating
<1> QED  BY <1>2, <1>3, <1>4, <1>5, <1>6, <1>7 DEF Construct

(* What is not a step of a call leaves it where it is.                     *)
LEMMA OthersStay ==
    ASSUME TypeOK, [Next]_vars, NEW t \in Thread, pc[t] # "idle", ~Construct(t)
    PROVE  UNCHANGED <<pc[t], request[t], action[t], depth[t]>>
<1>1. ASSUME NEW s \in Thread, Construct(s)
      PROVE  UNCHANGED <<pc[t], request[t], action[t], depth[t]>>
  <2>1. s # t
    BY <1>1
  <2>2. pc'[t] = pc[t] /\ request' = request
    BY <1>1, <2>1, ConstructLocal
  <2>3. action'[t] = action[t] /\ depth'[t] = depth[t]
    BY <1>1, <2>1 DEF TypeOK, Construct, Authorize, Consume, ConsumeRefused, MakeDirectory,
       OpenDirectory, CreateFile, WriteFile, VerifyFile, CloseRaises, Return, Fail,
       StartAction, local
  <2> QED  BY <2>2, <2>3
<1>2. ASSUME NEW s \in Thread, AcquireHandle(s) \/ LeaveHandle(s) \/ Begin(s)
      PROVE  UNCHANGED <<pc[t], request[t], action[t], depth[t]>>
  BY <1>2 DEF TypeOK, AcquireHandle, LeaveHandle, Begin, local
<1>3. CASE ReuseNumber \/ UNCHANGED vars
  BY <1>3 DEF ReuseNumber, vars, local
<1>4. ASSUME NEW e \in Entries, NEW content \in {"foreign", "directory"},
             CreateForeign(e, content)
      PROVE  UNCHANGED <<pc[t], request[t], action[t], depth[t]>>
  BY <1>4 DEF CreateForeign, local
<1> QED  BY <1>1, <1>2, <1>3, <1>4 DEF Next

(* What CallsReturn rests on: every step of a construct() call brings it   *)
(* nearer to its return, in its plan, on the path of the action, or in the *)
(* action itself (constructor.py:351-427), and nothing that another        *)
(* thread, the operating system or another program does takes it back.     *)
THEOREM CallsGoOnward == Spec => [][CallsGoOn]_vars
<1>1. TypeOK /\ [Next]_vars => [CallsGoOn]_vars
  BY ConstructOnward, OthersStay DEF CallsGoOn
<1> QED  BY <1>1, TypeCorrect, PTL DEF Spec
=============================================================================
