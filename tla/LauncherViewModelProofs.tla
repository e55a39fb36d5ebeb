---------------------- MODULE LauncherViewModelProofs ----------------------
(***************************************************************************)
(* What is proved of LauncherViewModel, for every set of queries, results  *)
(* and batches, and any number of overlapping runs.                        *)
(***************************************************************************)
EXTENDS LauncherViewModel, TLAPS

(* A run whose token is not cancelled works for what is on screen now.     *)
TokenInv ==
  /\ \A i \in Searches : token.search = i /\ search[i].at # "ended" => search[i].text = query
  /\ \A j \in Acceptances : token.action = j /\ running[j] # Over => running[j].text = query
  /\ \A i \in Previews : token.preview = i /\ looking[i] # None => looking[i] = selected

(* Nothing is listed, looked for or run under a blank query.               *)
BlankInv ==
  query = Blank => shown.items = <<>> /\ token.action = None /\ token.search = None

Inv == TypeOK /\ TokenInv /\ BlankInv /\ SelectionOnScreen

(* The type invariant in two parts: what is on screen, and what runs.      *)
ScreenOK ==
  /\ query \in Texts
  /\ shown \in [items : Batches \cup {<<>>}, text : Texts]
  /\ selected \in Results \cup {None}
  /\ focus \in -1..(IF selected = None THEN -1 ELSE Offered[selected] - 1)
  /\ preview \in [of : Results \cup {None}, body : {"hint", "loading", "done", "answer"}]
  /\ status \in {"prompt", "searching", "outcome", "no selection", "action"}

RunsOK ==
  /\ search \in [Searches -> [at : {"ended", "delay", "stream", "batch"}, text : Texts]]
  /\ looking \in [Previews -> Results \cup {None}]
  /\ running \in [Acceptances -> [result : Results \cup {None}, text : Texts]]
  /\ token \in [search : Searches \cup {None}, preview : Previews \cup {None},
                action : Acceptances \cup {None}]
  /\ stray \subseteq {"search", "preview"}

LEMMA TwoParts == TypeOK <=> ScreenOK /\ RunsOK
BY DEF TypeOK, ScreenOK, RunsOK

LEMMA TwoPartsNext == TypeOK' <=> ScreenOK' /\ RunsOK'
BY DEF TypeOK, ScreenOK, RunsOK

(* The values that stand for nothing have their types.                     *)
LEMMA ConstantsTyped ==
  /\ Nothing \in [items : Batches \cup {<<>>}, text : Texts]
  /\ Hint \in [of : Results \cup {None}, body : {"hint", "loading", "done", "answer"}]
  /\ Ended \in [at : {"ended", "delay", "stream", "batch"}, text : Texts]
  /\ Over \in [result : Results \cup {None}, text : Texts]
BY DEF Nothing, Hint, Ended, Over, Texts

LEMMA InvInit == Init => Inv
<1> SUFFICES ASSUME Init PROVE Inv
  OBVIOUS
<1>1. TypeOK
  <2>1. /\ query \in Texts /\ shown \in [items : Batches \cup {<<>>}, text : Texts]
        /\ selected \in Results \cup {None}
        /\ focus \in -1..(IF selected = None THEN -1 ELSE Offered[selected] - 1)
    BY DEF Init, Texts, Nothing
  <2>2. /\ preview \in [of : Results \cup {None}, body : {"hint", "loading", "done", "answer"}]
        /\ status \in {"prompt", "searching", "outcome", "no selection", "action"}
    BY DEF Init, Hint
  <2>3. /\ search \in [Searches -> [at : {"ended", "delay", "stream", "batch"}, text : Texts]]
        /\ looking \in [Previews -> Results \cup {None}]
        /\ running \in [Acceptances -> [result : Results \cup {None}, text : Texts]]
    BY DEF Init, Ended, Over, Texts
  <2>4. /\ token \in [search : Searches \cup {None}, preview : Previews \cup {None},
                      action : Acceptances \cup {None}]
        /\ stray \subseteq {"search", "preview"}
    BY DEF Init
  <2>5. QED
    BY <2>1, <2>2, <2>3, <2>4 DEF TypeOK
<1>2. TokenInv /\ BlankInv /\ SelectionOnScreen
  BY LauncherAssumption DEF Init, TokenInv, BlankInv, SelectionOnScreen, Nothing
<1>3. QED
  BY <1>1, <1>2 DEF Inv

(* What a new selection does, wherever it comes from.                      *)
LEMMA SelectStep ==
  ASSUME Inv, NEW r \in Results \cup {None}, Select(r)
  PROVE  /\ selected' = r
         /\ focus' \in -1..(IF r = None THEN -1 ELSE Offered[r] - 1)
         /\ preview' \in [of : {r}, body : {"hint", "loading"}]
         /\ r = None => preview' = Hint
         /\ looking' \in [Previews -> Results \cup {None}]
         /\ token' \in [search : Searches \cup {None}, preview : Previews \cup {None},
                        action : Acceptances \cup {None}]
         /\ token'.search = token.search /\ token'.action = token.action
         /\ \A i \in Previews : token'.preview = i /\ looking'[i] # None => looking'[i] = r
         /\ stray' = stray \ {"preview"}
<1>1. /\ stray' = stray \ {"preview"}
      /\ looking \in [Previews -> Results \cup {None}] /\ None \notin Previews
      /\ token \in [search : Searches \cup {None}, preview : Previews \cup {None},
                    action : Acceptances \cup {None}]
      /\ None \notin Results /\ Offered \in [Results -> Nat \ {0}]
  BY LauncherAssumption DEF Inv, TypeOK, Select
<1>2. CASE r = None
  <2>1. preview' = Hint /\ focus' = -1 /\ looking' = looking /\ selected' = None
        /\ token' = [token EXCEPT !.preview = None]
    BY <1>1, <1>2 DEF Select
  <2>2. QED
    BY <1>1, <1>2, <2>1 DEF Hint
<1>3. CASE r # None
  <2>1. PICK i \in Previews :
          looking' = [looking EXCEPT ![i] = r] /\ token' = [token EXCEPT !.preview = i]
    BY <1>3 DEF Select
  <2>2. preview' = [of |-> r, body |-> "loading"] /\ focus' = 0 /\ selected' = r
    BY <1>3 DEF Select
  <2>3. focus' \in -1..(Offered[r] - 1)
    BY <1>1, <1>3, <2>2
  <2>4. QED
    BY <1>1, <1>3, <2>1, <2>2, <2>3
<1>4. QED
  BY <1>2, <1>3

(* What is on screen are results, and so is what the arrow keys lead to.   *)
LEMMA ShownTyped ==
  ASSUME Inv
  PROVE  /\ shown.items \in Seq(Results) /\ selected \in Results \cup {None}
         /\ \A n \in DOMAIN shown.items : shown.items[n] \in Results
<1>1. shown \in [items : Batches \cup {<<>>}, text : Texts] /\ selected \in Results \cup {None}
      /\ Batches \subseteq Seq(Results)
  BY LauncherAssumption DEF Inv, TypeOK
<1>2. shown.items \in Batches \cup {<<>>} /\ <<>> \in Seq(Results)
  BY <1>1
<1>3. shown.items \in Seq(Results)
  BY <1>1, <1>2
<1>4. QED
  BY <1>1, <1>3

LEMMA MoveTargetsShown ==
  ASSUME Inv, NEW delta \in {-1, 1}, NEW r \in MoveTargets(delta), shown.items # <<>>
  PROVE  \E n \in DOMAIN shown.items : r = shown.items[n]
<1>1. 1 \in DOMAIN shown.items /\ DOMAIN shown.items = 1..Len(shown.items)
      /\ Len(shown.items) \in Nat
  BY ShownTyped
<1>2. \A n \in DOMAIN shown.items : Clamp(n + delta, 1, Len(shown.items)) \in DOMAIN shown.items
  BY <1>1 DEF Clamp
<1>3. QED
  BY <1>1, <1>2 DEF MoveTargets

LEMMA MoveTargetsTyped ==
  ASSUME Inv, NEW delta \in {-1, 1}, NEW r \in MoveTargets(delta)
  PROVE  r \in Results \cup {None}
<1>1. CASE shown.items = <<>>
  BY <1>1 DEF MoveTargets
<1>2. CASE shown.items # <<>>
  BY <1>2, MoveTargetsShown, ShownTyped
<1>3. QED
  BY <1>1, <1>2

LEMMA InvStep == Inv /\ [Next]_vars => Inv'
<1> SUFFICES ASSUME Inv, [Next]_vars PROVE Inv'
  OBVIOUS
<1>a. /\ TypeOK /\ TokenInv /\ BlankInv /\ SelectionOnScreen
      /\ search \in [Searches -> [at : {"ended", "delay", "stream", "batch"}, text : Texts]]
      /\ running \in [Acceptances -> [result : Results \cup {None}, text : Texts]]
      /\ looking \in [Previews -> Results \cup {None}]
      /\ token \in [search : Searches \cup {None}, preview : Previews \cup {None},
                    action : Acceptances \cup {None}]
      /\ None \notin Results \cup Searches \cup Previews \cup Acceptances
      /\ Blank \notin Queries /\ Offered \in [Results -> Nat \ {0}] /\ Batches \subseteq Seq(Results)
  BY LauncherAssumption DEF Inv, TypeOK
<1>b. shown.items \in Seq(Results) /\ selected \in Results \cup {None}
  BY ShownTyped
<1>c. ScreenOK /\ RunsOK
  BY <1>a, TwoParts
<1> USE DEF screen
<1>1. ASSUME NEW t \in Queries, TypeText(t) PROVE Inv'
  <2>1. PICK i \in Searches :
          /\ search' = [search EXCEPT ![i] = [at |-> "delay", text |-> t]]
          /\ token' = [token EXCEPT !.search = i, !.action = None]
    BY <1>1 DEF TypeText
  <2>2. token'.search = i /\ token'.action = None /\ token'.preview = token.preview
    BY <1>a, <2>1
  <2>3. TypeOK'
    BY <1>a, <1>1, <2>1 DEF TypeText, TypeOK, Texts
  <2>4. TokenInv'
    BY <1>a, <1>1, <2>1, <2>2 DEF TypeText, TokenInv
  <2>5. BlankInv' /\ SelectionOnScreen'
    BY <1>a, <1>1 DEF TypeText, BlankInv, SelectionOnScreen
  <2>6. QED
    BY <2>3, <2>4, <2>5 DEF Inv
<1>2. CASE TypeBlank
  <2>1. TypeOK'
    <3>1. ScreenOK'
      <4>1. /\ query' = Blank /\ shown' = Nothing /\ selected' = None /\ focus' = -1
            /\ preview' = Hint /\ status' = "prompt"
        BY <1>2 DEF TypeBlank
      <4>2. query' \in Texts /\ focus' \in -1..(IF selected' = None THEN -1 ELSE Offered[selected'] - 1)
        BY <4>1 DEF Texts
      <4>3. QED
        BY <4>1, <4>2, ConstantsTyped DEF ScreenOK
    <3>2. RunsOK'
      BY <1>c, <1>2 DEF TypeBlank, RunsOK
    <3>3. QED
      BY <3>1, <3>2, TwoPartsNext
  <2>2. TokenInv' /\ BlankInv' /\ SelectionOnScreen'
    BY <1>a, <1>2 DEF TypeBlank, TokenInv, BlankInv, SelectionOnScreen, Nothing
  <2>3. QED
    BY <2>1, <2>2 DEF Inv
<1>3. CASE AcceptNothing \/ AcceptSettings
  <2>1. TypeOK'
    BY <1>a, <1>3 DEF AcceptNothing, AcceptSettings, TypeOK
  <2>2. TokenInv' /\ BlankInv' /\ SelectionOnScreen'
    BY <1>a, <1>3 DEF AcceptNothing, AcceptSettings, TokenInv, BlankInv, SelectionOnScreen
  <2>3. QED
    BY <2>1, <2>2 DEF Inv
<1>4. CASE Accept
  <2>1. PICK j \in Acceptances :
          /\ running' = [running EXCEPT ![j] = [result |-> selected, text |-> query]]
          /\ token' = [token EXCEPT !.action = j]
    BY <1>4 DEF Accept
  <2>2. token'.action = j /\ token'.search = token.search /\ token'.preview = token.preview
    BY <1>a, <2>1
  <2>3. TypeOK'
    BY <1>a, <1>4, <2>1 DEF Accept, TypeOK
  <2>4. TokenInv'
    BY <1>a, <1>4, <2>1, <2>2 DEF Accept, TokenInv
  <2>5. query # Blank
    BY <1>a, <1>4 DEF Accept, BlankInv, SelectionOnScreen
  <2>6. BlankInv' /\ SelectionOnScreen'
    BY <1>a, <1>4, <2>5 DEF Accept, BlankInv, SelectionOnScreen
  <2>7. QED
    BY <2>3, <2>4, <2>6 DEF Inv
\* A new selection among the results on screen.
<1>5. ASSUME NEW n \in DOMAIN shown.items, Select(shown.items[n]),
             UNCHANGED <<query, shown, status, search, running>>
      PROVE  Inv'
  <2>1. shown.items[n] \in Results /\ shown.items # <<>>
    BY <1>b, <1>5
  <2>2. selected' = shown.items[n] /\ selected' # None
    BY <1>a, <1>5, <2>1, SelectStep
  <2>3. TypeOK'
    BY <1>a, <1>5, <2>1, <2>2, SelectStep DEF TypeOK
  <2>4. TokenInv'
    BY <1>a, <1>5, <2>1, <2>2, SelectStep DEF TokenInv
  <2>5. BlankInv' /\ SelectionOnScreen'
    BY <1>a, <1>5, <2>1, <2>2, SelectStep DEF BlankInv, SelectionOnScreen
  <2>6. QED
    BY <2>3, <2>4, <2>5 DEF Inv
<1>6. ASSUME NEW delta \in {-1, 1}, MoveSelection(delta) PROVE Inv'
  <2>1. PICK r \in MoveTargets(delta) : r # selected /\ Select(r)
    BY <1>6 DEF MoveSelection
  <2>2. shown.items # <<>>
    BY <1>a, <2>1 DEF MoveTargets, SelectionOnScreen
  <2>3. \E n \in DOMAIN shown.items : r = shown.items[n]
    BY <2>1, <2>2, MoveTargetsShown
  <2>4. QED
    BY <1>5, <1>6, <2>1, <2>3 DEF MoveSelection
<1>7. CASE Click
  BY <1>5, <1>7 DEF Click
<1>8. CASE MoveFocus
  <2>1. focus' \in -1..(IF selected = None THEN -1 ELSE Offered[selected] - 1)
    BY <1>a, <1>b, <1>8 DEF MoveFocus
  <2>2. TypeOK'
    BY <1>a, <1>8, <2>1 DEF MoveFocus, TypeOK
  <2>3. TokenInv' /\ BlankInv' /\ SelectionOnScreen'
    BY <1>a, <1>8 DEF MoveFocus, TokenInv, BlankInv, SelectionOnScreen
  <2>4. QED
    BY <2>2, <2>3 DEF Inv
<1>9. ASSUME NEW i \in Searches, DelayOver(i) PROVE Inv'
  <2>1. TypeOK'
    <3>1. ScreenOK'
      BY <1>c, <1>9 DEF DelayOver, ScreenOK
    <3>2. PICK s \in [at : {"ended", "delay", "stream", "batch"}, text : Texts] :
            search' = [search EXCEPT ![i] = s]
      <4>1. CASE token.search = i
        <5>1. search' = [search EXCEPT ![i] = [search[i] EXCEPT !.at = "stream"]]
          BY <1>a, <1>9, <4>1 DEF DelayOver
        <5>2. [search[i] EXCEPT !.at = "stream"]
                \in [at : {"ended", "delay", "stream", "batch"}, text : Texts]
          BY <1>a
        <5>3. QED
          BY <5>1, <5>2
      <4>2. CASE token.search # i
        BY <1>9, <4>2, ConstantsTyped DEF DelayOver
      <4>3. QED
        BY <4>1, <4>2
    <3>3. RunsOK'
      BY <1>c, <1>9, <3>2 DEF DelayOver, RunsOK
    <3>4. QED
      BY <3>1, <3>3, TwoPartsNext
  <2>2. TokenInv'
    BY <1>a, <1>9 DEF DelayOver, TokenInv, Ended
  <2>3. BlankInv' /\ SelectionOnScreen'
    BY <1>a, <1>9 DEF DelayOver, BlankInv, SelectionOnScreen
  <2>4. QED
    BY <2>1, <2>2, <2>3 DEF Inv
<1>10. ASSUME NEW i \in Searches, Batch(i) PROVE Inv'
  <2>1. PICK b \in Batches :
          /\ shown' = [items |-> b, text |-> search[i].text]
          /\ Assign(IF b = <<>> THEN None
                    ELSE IF \E n \in DOMAIN b : b[n] = selected THEN selected ELSE b[1])
    BY <1>10 DEF Batch
  <2> DEFINE r == IF b = <<>> THEN None
                  ELSE IF \E n \in DOMAIN b : b[n] = selected THEN selected ELSE b[1]
  <2>2. /\ r \in Results \cup {None}
        /\ IF b = <<>> THEN r = None ELSE \E n \in DOMAIN b : b[n] = r
    <3>1. b \in Seq(Results)
      BY <1>a
    <3>2. QED
      BY <1>b, <3>1
  <2>3. search' = [search EXCEPT ![i].at = "batch"] /\ UNCHANGED <<query, running>>
        /\ status' = "outcome" /\ token.search = i /\ search[i].at # "ended"
    BY <1>10 DEF Batch
  <2> HIDE DEF r
  <2>4. /\ selected' = r /\ token'.search = token.search /\ token'.action = token.action
        /\ \A k \in Previews : token'.preview = k /\ looking'[k] # None => looking'[k] = r
        /\ focus' \in -1..(IF r = None THEN -1 ELSE Offered[r] - 1)
        /\ preview' \in [of : Results \cup {None}, body : {"hint", "loading", "done", "answer"}]
        /\ looking' \in [Previews -> Results \cup {None}]
        /\ token' \in [search : Searches \cup {None}, preview : Previews \cup {None},
                       action : Acceptances \cup {None}]
        /\ stray' \subseteq stray
    <3>1. CASE Select(r)
      BY <2>2, <3>1, SelectStep
    <3>2. CASE r = selected /\ UNCHANGED <<selected, focus, preview, looking, token, stray>>
      BY <1>a, <3>2 DEF TypeOK, TokenInv
    <3>3. QED
      BY <2>1, <3>1, <3>2 DEF Assign, r
  <2>5. TypeOK'
    <3>1. shown' \in [items : Batches \cup {<<>>}, text : Texts]
      BY <1>a, <2>1
    <3>2. ScreenOK'
      BY <1>c, <2>2, <2>3, <2>4, <3>1 DEF ScreenOK
    <3>3. search' \in [Searches -> [at : {"ended", "delay", "stream", "batch"}, text : Texts]]
      BY <1>a, <2>3
    <3>4. RunsOK'
      BY <1>c, <2>3, <2>4, <3>3 DEF RunsOK
    <3>5. QED
      BY <3>2, <3>4, TwoPartsNext
  <2>6. TokenInv'
    BY <1>a, <2>3, <2>4 DEF TokenInv
  <2>7. BlankInv' /\ SelectionOnScreen'
    BY <1>a, <2>1, <2>2, <2>3, <2>4 DEF BlankInv, SelectionOnScreen
  <2>8. QED
    BY <2>5, <2>6, <2>7 DEF Inv
<1>11. ASSUME NEW i \in Searches, SearchEnds(i) \/ SearchStopsShort(i) \/ SearchDropped(i)
       PROVE  Inv'
  <2>1. search' = [search EXCEPT ![i] = Ended] /\ UNCHANGED <<screen, looking, running, token>>
        /\ stray' \in {stray, stray \cup {"search"}}
    BY <1>11 DEF SearchEnds, SearchStopsShort, SearchDropped
  <2>2. TypeOK'
    <3>1. ScreenOK'
      BY <1>c, <2>1 DEF ScreenOK
    <3>2. RunsOK'
      BY <1>c, <2>1, ConstantsTyped DEF RunsOK
    <3>3. QED
      BY <3>1, <3>2, TwoPartsNext
  <2>3. TokenInv' /\ BlankInv' /\ SelectionOnScreen'
    BY <1>a, <2>1 DEF TokenInv, BlankInv, SelectionOnScreen, Ended
  <2>4. QED
    BY <2>2, <2>3 DEF Inv
<1>12. ASSUME NEW i \in Searches, SearchFails(i) PROVE Inv'
  <2>1. TypeOK'
    <3>1. ScreenOK'
      <4>1. /\ query' = query /\ shown' = Nothing /\ selected' = None /\ focus' = -1
            /\ preview' = Hint /\ status' = "outcome"
        BY <1>12 DEF SearchFails
      <4>2. focus' \in -1..(IF selected' = None THEN -1 ELSE Offered[selected'] - 1)
        BY <4>1
      <4>3. QED
        BY <1>c, <4>1, <4>2, ConstantsTyped DEF ScreenOK
    <3>2. RunsOK'
      BY <1>c, <1>12, ConstantsTyped DEF SearchFails, RunsOK
    <3>3. QED
      BY <3>1, <3>2, TwoPartsNext
  <2>2. TokenInv'
    BY <1>a, <1>12 DEF SearchFails, TokenInv, Ended
  <2>3. BlankInv' /\ SelectionOnScreen'
    BY <1>a, <1>12 DEF SearchFails, BlankInv, SelectionOnScreen, Nothing
  <2>4. QED
    BY <2>1, <2>2, <2>3 DEF Inv
<1>13. ASSUME NEW i \in Previews, PreviewArrives(i) \/ PreviewDropped(i) \/ PreviewFails(i)
       PROVE  Inv'
  <2>a. /\ UNCHANGED <<query, shown, selected, focus, status, search, running>>
        /\ looking' = [looking EXCEPT ![i] = None]
        /\ preview' = preview \/ preview' = [of |-> looking[i], body |-> "done"]
        /\ token' = token \/ token' = [token EXCEPT !.preview = None]
        /\ stray' \in {stray, stray \cup {"preview"}}
    BY <1>13 DEF PreviewArrives, PreviewDropped, PreviewFails
  <2>b. /\ token'.search = token.search /\ token'.action = token.action
        /\ token'.preview \in {token.preview, None}
        /\ token' \in [search : Searches \cup {None}, preview : Previews \cup {None},
                       action : Acceptances \cup {None}]
    BY <1>a, <2>a
  <2>1. TypeOK'
    <3>1. preview' \in [of : Results \cup {None}, body : {"hint", "loading", "done", "answer"}]
      <4>1. looking[i] \in Results \cup {None}
        BY <1>a
      <4>2. preview \in [of : Results \cup {None}, body : {"hint", "loading", "done", "answer"}]
        BY <1>c DEF ScreenOK
      <4>3. QED
        BY <2>a, <4>1, <4>2
    <3>2. ScreenOK'
      BY <1>c, <2>a, <3>1 DEF ScreenOK
    <3>3. RunsOK'
      BY <1>c, <2>a, <2>b DEF RunsOK
    <3>4. QED
      BY <3>2, <3>3, TwoPartsNext
  <2>2. TokenInv' /\ BlankInv' /\ SelectionOnScreen'
    BY <1>a, <2>a, <2>b DEF TokenInv, BlankInv, SelectionOnScreen
  <2>3. QED
    BY <2>1, <2>2 DEF Inv
<1>14. ASSUME NEW j \in Acceptances, ActionAnswers(j) \/ ActionFails(j) \/ ActionDropped(j)
       PROVE  Inv'
  <2>a. /\ UNCHANGED <<query, shown, selected, focus, search, looking, stray>>
        /\ status' \in {status, "action"}
        /\ running' = [running EXCEPT ![j] = Over]
        /\ preview' = preview \/ preview' = [of |-> running[j].result, body |-> "answer"]
        /\ \/ token' = token \/ token' = [token EXCEPT !.action = None]
           \/ token' = [token EXCEPT !.preview = None, !.action = None]
    BY <1>14 DEF ActionAnswers, ActionFails, ActionDropped
  <2>b. /\ token'.search = token.search
        /\ token'.action \in {token.action, None} /\ token'.preview \in {token.preview, None}
        /\ token' \in [search : Searches \cup {None}, preview : Previews \cup {None},
                       action : Acceptances \cup {None}]
    BY <1>a, <2>a
  <2>1. TypeOK'
    <3>1. preview' \in [of : Results \cup {None}, body : {"hint", "loading", "done", "answer"}]
      <4>1. running[j].result \in Results \cup {None}
        BY <1>a
      <4>2. preview \in [of : Results \cup {None}, body : {"hint", "loading", "done", "answer"}]
        BY <1>c DEF ScreenOK
      <4>3. QED
        BY <2>a, <4>1, <4>2
    <3>2. ScreenOK'
      BY <1>c, <2>a, <3>1 DEF ScreenOK
    <3>3. RunsOK'
      BY <1>c, <2>a, <2>b, ConstantsTyped DEF RunsOK
    <3>4. QED
      BY <3>2, <3>3, TwoPartsNext
  <2>2. TokenInv' /\ BlankInv' /\ SelectionOnScreen'
    <3>1. \A k \in Acceptances : running'[k] # Over => k # j /\ running'[k] = running[k]
      BY <1>a, <2>a
    <3>2. TokenInv'
      BY <1>a, <2>a, <2>b, <3>1 DEF TokenInv
    <3>3. BlankInv' /\ SelectionOnScreen'
      BY <1>a, <2>a, <2>b DEF BlankInv, SelectionOnScreen
    <3>4. QED
      BY <3>2, <3>3
  <2>3. QED
    BY <2>1, <2>2 DEF Inv
<1>15. CASE UNCHANGED vars
  BY <1>a, <1>15 DEF vars, Inv, TypeOK, TokenInv, BlankInv, SelectionOnScreen
<1>16. QED
  BY <1>1, <1>2, <1>3, <1>4, <1>6, <1>7, <1>8, <1>9, <1>10, <1>11, <1>12, <1>13, <1>14, <1>15
     DEF Next, User, SearchStep

-----------------------------------------------------------------------------
(* The state is always well typed.                                         *)
THEOREM Typing == Spec => []TypeOK
<1>1. Inv => TypeOK
  BY DEF Inv
<1>2. QED
  BY InvInit, InvStep, <1>1, PTL DEF Spec

(* However searches, previews, keys and clicks interleave, and whatever    *)
(* fails late: the selected result is one of those on screen, and          *)
(* AcceptSelectionAsync (LauncherViewModel.cs) runs nothing else.          *)
THEOREM SelectionIsOnScreen == Spec => []SelectionOnScreen
<1>1. Inv => SelectionOnScreen
  BY DEF Inv
<1>2. QED
  BY InvInit, InvStep, <1>1, PTL DEF Spec

(* An overtaken search never brings up its results (RefreshAsync's check   *)
(* of its token): those that come up are of the query typed last.          *)
THEOREM NewestResults == Spec => NewestResultsOnly
<1>1. Inv /\ [Next]_vars
        => [shown' # shown /\ shown'.items # <<>> => shown'.text = query]_vars
  <2> SUFFICES ASSUME Inv, Next, shown' # shown, shown'.items # <<>>
               PROVE  shown'.text = query
    BY DEF vars, screen
  <2>a. shown' # shown /\ shown' # Nothing
    BY DEF Nothing
  <2>1. PICK i \in Searches : Batch(i)
    <3>1. ~User
      BY <2>a DEF User, TypeText, TypeBlank, AcceptNothing, AcceptSettings, Accept,
                  MoveSelection, Click, MoveFocus
    <3>2. \A i \in Searches : SearchStep(i) => Batch(i)
      BY <2>a DEF SearchStep, DelayOver, SearchEnds, SearchStopsShort, SearchDropped,
                  SearchFails, screen
    <3>3. \A i \in Previews : ~(PreviewArrives(i) \/ PreviewDropped(i) \/ PreviewFails(i))
      BY <2>a DEF PreviewArrives, PreviewDropped, PreviewFails, screen
    <3>4. \A j \in Acceptances : ~(ActionAnswers(j) \/ ActionFails(j) \/ ActionDropped(j))
      BY <2>a DEF ActionAnswers, ActionFails, ActionDropped, screen
    <3>5. QED
      BY <3>1, <3>2, <3>3, <3>4 DEF Next
  <2>2. search[i].text = query
    BY <2>1 DEF Batch, Inv, TokenInv
  <2>3. QED
    BY <2>1, <2>2 DEF Batch
<1>2. QED
  BY InvInit, InvStep, <1>1, PTL DEF Spec, NewestResultsOnly

(* A cancelled action never overwrites the preview: an answer comes up     *)
(* only under the query its action was started under.                      *)
THEOREM CurrentAnswers == Spec => AnswersAreCurrent
<1>1. Inv /\ [Next]_vars
        => [\A j \in Acceptances :
              running[j] # Over /\ running'[j] = Over /\ preview' # preview
                => running[j].text = query]_vars
  <2> SUFFICES ASSUME Inv, Next, NEW j \in Acceptances,
                      running[j] # Over, running'[j] = Over, preview' # preview
               PROVE  running[j].text = query
    BY DEF vars, screen
  <2>1. running \in [Acceptances -> [result : Results \cup {None}, text : Texts]]
        /\ None \notin Results
    BY LauncherAssumption DEF Inv, TypeOK
  <2>a. running' # running
    OBVIOUS
  <2>2. PICK k \in Acceptances : ActionAnswers(k)
    <3>1. ~User
      BY <2>a DEF User, TypeText, TypeBlank, AcceptNothing, AcceptSettings, Accept,
                  MoveSelection, Click, MoveFocus
    <3>2. \A i \in Searches : ~SearchStep(i)
      BY <2>a DEF SearchStep, DelayOver, Batch, SearchEnds, SearchStopsShort, SearchDropped,
                  SearchFails
    <3>3. \A i \in Previews : ~(PreviewArrives(i) \/ PreviewDropped(i) \/ PreviewFails(i))
      BY <2>a DEF PreviewArrives, PreviewDropped, PreviewFails
    <3>4. \A i \in Acceptances : ~(ActionFails(i) \/ ActionDropped(i))
      BY DEF ActionFails, ActionDropped, screen
    <3>5. QED
      BY <3>1, <3>2, <3>3, <3>4 DEF Next
  <2>3. running' = [running EXCEPT ![k] = Over] /\ running[k] # Over /\ token.action = k
    BY <2>2 DEF ActionAnswers
  <2>4. k = j
    BY <2>1, <2>3
  <2>5. QED
    BY <2>3, <2>4 DEF Inv, TokenInv
<1>2. QED
  BY InvInit, InvStep, <1>1, PTL DEF Spec, AnswersAreCurrent
-----------------------------------------------------------------------------
(* Nothing is left on screen of an earlier query, not only once the search *)
(* has ended, but as soon as its first batch has come.                     *)
AwaitsBatch == \E i \in Searches : token.search = i /\ search[i].at \in {"delay", "stream"}
SettledInv ==
  ~AwaitsBatch /\ "search" \notin stray =>
    /\ shown.items # <<>> => shown.text = query
    /\ status # "searching"

ScreenInv == Inv /\ SettledInv /\ BlankPrompts /\ PreviewFollowsSelection

LEMMA ScreenInit == Init => SettledInv /\ BlankPrompts /\ PreviewFollowsSelection
BY DEF Init, SettledInv, BlankPrompts, PreviewFollowsSelection, Nothing, Hint

LEMMA ScreenStep == ScreenInv /\ [Next]_vars => ScreenInv'
<1> SUFFICES ASSUME ScreenInv, [Next]_vars
             PROVE  SettledInv' /\ BlankPrompts' /\ PreviewFollowsSelection'
  BY InvStep DEF ScreenInv
<1>a. /\ Inv /\ TokenInv /\ BlankInv /\ SelectionOnScreen
      /\ SettledInv /\ BlankPrompts /\ PreviewFollowsSelection
      /\ search \in [Searches -> [at : {"ended", "delay", "stream", "batch"}, text : Texts]]
      /\ looking \in [Previews -> Results \cup {None}]
      /\ token \in [search : Searches \cup {None}, preview : Previews \cup {None},
                    action : Acceptances \cup {None}]
      /\ selected \in Results \cup {None}
      /\ None \notin Results \cup {Settings} \cup Searches \cup Previews \cup Acceptances
      /\ Blank \notin Queries /\ Batches \subseteq Seq(Results)
  BY LauncherAssumption DEF ScreenInv, Inv, TypeOK
\* Under a blank query nothing is selected, and no search or action is under way.
<1>b. query = Blank =>
        shown.items = <<>> /\ selected = None /\ token.search = None /\ token.action = None
  BY <1>a DEF BlankInv, SelectionOnScreen
<1> USE DEF screen
<1>1. ASSUME NEW t \in Queries, TypeText(t)
      PROVE  SettledInv' /\ BlankPrompts' /\ PreviewFollowsSelection'
  <2>1. PICK i \in Searches :
          /\ search' = [search EXCEPT ![i] = [at |-> "delay", text |-> t]]
          /\ token' = [token EXCEPT !.search = i, !.action = None]
    BY <1>1 DEF TypeText
  <2>2. AwaitsBatch'
    BY <1>a, <2>1 DEF AwaitsBatch
  <2>3. QED
    BY <1>a, <1>1, <2>2 DEF TypeText, SettledInv, BlankPrompts, PreviewFollowsSelection
<1>2. CASE TypeBlank
  BY <1>2 DEF TypeBlank, SettledInv, BlankPrompts, PreviewFollowsSelection, Nothing, Hint
<1>3. CASE AcceptNothing \/ AcceptSettings \/ Accept
  <2>1. /\ status' \in {"no selection", "action"}
        /\ query = Blank => status' = "no selection"
        /\ UNCHANGED <<query, shown, selected, preview, stray>>
    BY <1>a, <1>b, <1>3 DEF AcceptNothing, AcceptSettings, Accept
  <2>2. SettledInv'
    <3>1. AwaitsBatch' <=> AwaitsBatch
      BY <1>a, <1>3 DEF AwaitsBatch, AcceptNothing, AcceptSettings, Accept
    <3>2. QED
      BY <1>a, <2>1, <3>1 DEF SettledInv
  <2>3. QED
    BY <1>a, <2>1, <2>2 DEF BlankPrompts, PreviewFollowsSelection
\* A new selection under a query that is not blank.
<1>4. ASSUME NEW r \in Results \cup {None}, Select(r), query # Blank,
             UNCHANGED <<query, shown, status, search, running>>
      PROVE  SettledInv' /\ BlankPrompts' /\ PreviewFollowsSelection'
  <2>1. /\ selected' = r /\ preview'.of = r /\ stray' = stray \ {"preview"}
        /\ token'.search = token.search
    BY <1>a, <1>4, SelectStep
  <2>2. AwaitsBatch' <=> AwaitsBatch
    BY <1>4, <2>1 DEF AwaitsBatch
  <2>3. QED
    BY <1>a, <1>4, <2>1, <2>2 DEF SettledInv, BlankPrompts, PreviewFollowsSelection
<1>5. ASSUME NEW delta \in {-1, 1}, MoveSelection(delta)
      PROVE  SettledInv' /\ BlankPrompts' /\ PreviewFollowsSelection'
  <2>1. PICK r \in MoveTargets(delta) : r # selected /\ Select(r)
    BY <1>5 DEF MoveSelection
  <2>2. query # Blank
    BY <1>b, <2>1 DEF MoveTargets
  <2>3. r \in Results \cup {None}
    BY <2>1, MoveTargetsTyped DEF ScreenInv
  <2>4. QED
    BY <1>4, <1>5, <2>1, <2>2, <2>3 DEF MoveSelection
<1>6. CASE Click
  <2>1. PICK n \in DOMAIN shown.items : Select(shown.items[n])
    BY <1>6 DEF Click
  <2>2. query # Blank
    BY <1>b, <2>1
  <2>3. shown.items[n] \in Results \cup {None}
    BY <2>1, ShownTyped DEF ScreenInv
  <2>4. QED
    BY <1>4, <1>6, <2>1, <2>2, <2>3 DEF Click
<1>7. CASE MoveFocus
  BY <1>a, <1>7 DEF MoveFocus, SettledInv, AwaitsBatch, BlankPrompts, PreviewFollowsSelection
<1>8. ASSUME NEW i \in Searches, DelayOver(i)
      PROVE  SettledInv' /\ BlankPrompts' /\ PreviewFollowsSelection'
  <2>1. query = Blank => token.search # i
    BY <1>a, <1>b
  <2>2. token.search = i => AwaitsBatch'
    BY <1>a, <1>8 DEF DelayOver, AwaitsBatch
  <2>3. UNCHANGED <<query, shown, selected, preview>>
        /\ stray \subseteq stray' /\ (token.search # i => "search" \in stray')
        /\ (token.search = i => stray' = stray)
    BY <1>8 DEF DelayOver
  <2>4. QED
    BY <1>a, <2>1, <2>2, <2>3 DEF SettledInv, BlankPrompts, PreviewFollowsSelection
<1>9. ASSUME NEW i \in Searches, Batch(i)
      PROVE  SettledInv' /\ BlankPrompts' /\ PreviewFollowsSelection'
  <2>1. query' = query /\ query # Blank /\ shown'.text = query /\ status' = "outcome"
    BY <1>a, <1>b, <1>9 DEF Batch, TokenInv
  <2>2. preview'.of = selected'
          \/ UNCHANGED <<selected, preview, stray>>
    <3>1. PICK b \in Batches :
            Assign(IF b = <<>> THEN None
                   ELSE IF \E n \in DOMAIN b : b[n] = selected THEN selected ELSE b[1])
      BY <1>9 DEF Batch
    <3> DEFINE r == IF b = <<>> THEN None
                    ELSE IF \E n \in DOMAIN b : b[n] = selected THEN selected ELSE b[1]
    <3>2. r \in Results \cup {None}
      <4>1. b \in Seq(Results)
        BY <1>a
      <4>2. QED
        BY <1>a, <4>1
    <3> HIDE DEF r
    <3>3. CASE Select(r)
      BY <1>a, <3>2, <3>3, SelectStep
    <3>4. QED
      BY <3>1, <3>3 DEF Assign, r
  <2>3. QED
    BY <1>a, <2>1, <2>2 DEF SettledInv, BlankPrompts, PreviewFollowsSelection
<1>10. ASSUME NEW i \in Searches, SearchEnds(i) \/ SearchStopsShort(i) \/ SearchDropped(i)
       PROVE  SettledInv' /\ BlankPrompts' /\ PreviewFollowsSelection'
  <2>1. /\ UNCHANGED <<screen, token>> /\ search' = [search EXCEPT ![i] = Ended]
        /\ stray' \in {stray, stray \cup {"search"}}
    BY <1>a, <1>10 DEF SearchEnds, SearchStopsShort, SearchDropped
  <2>2. stray' = stray => "search" \in stray \/ (AwaitsBatch' <=> AwaitsBatch)
    <3>1. CASE token.search = i /\ search[i].at = "stream"
      BY <1>a, <1>10, <3>1 DEF SearchEnds, SearchStopsShort, SearchDropped
    <3>2. CASE ~(token.search = i /\ search[i].at = "stream")
      <4>1. token.search # i \/ search[i].at = "batch"
        BY <1>10, <3>2 DEF SearchEnds, SearchStopsShort, SearchDropped
      <4>2. token.search = i => search[i].at \notin {"delay", "stream"}
        BY <4>1
      <4>3. \A k \in Searches :
              token.search = k => search'[k].at \in {"delay", "stream"}
                                    <=> search[k].at \in {"delay", "stream"}
        BY <1>a, <2>1, <4>2 DEF Ended
      <4>4. QED
        BY <2>1, <4>3 DEF AwaitsBatch
    <3>3. QED
      BY <3>1, <3>2
  <2>3. QED
    BY <1>a, <2>1, <2>2 DEF SettledInv, BlankPrompts, PreviewFollowsSelection
<1>11. ASSUME NEW i \in Searches, SearchFails(i)
       PROVE  SettledInv' /\ BlankPrompts' /\ PreviewFollowsSelection'
  <2>1. query = Blank => token.search # i
    BY <1>a, <1>b
  <2>2. QED
    BY <1>11, <2>1 DEF SearchFails, SettledInv, BlankPrompts, PreviewFollowsSelection,
                       Nothing, Hint
<1>12. ASSUME NEW i \in Previews, PreviewArrives(i) \/ PreviewDropped(i) \/ PreviewFails(i)
       PROVE  SettledInv' /\ BlankPrompts' /\ PreviewFollowsSelection'
  <2>1. /\ UNCHANGED <<query, shown, selected, status, search>>
        /\ stray' \in {stray, stray \cup {"preview"}} /\ token'.search = token.search
    BY <1>a, <1>12 DEF PreviewArrives, PreviewDropped, PreviewFails
  <2>2. \/ preview' = preview
        \/ looking[i] = selected /\ selected # None /\ preview'.of = selected
        \/ "preview" \in stray'
    BY <1>a, <1>12 DEF PreviewArrives, PreviewDropped, PreviewFails, TokenInv
  <2>3. AwaitsBatch' <=> AwaitsBatch
    BY <2>1 DEF AwaitsBatch
  <2>4. QED
    BY <1>a, <1>b, <2>1, <2>2, <2>3 DEF SettledInv, BlankPrompts, PreviewFollowsSelection
<1>13. ASSUME NEW j \in Acceptances, ActionAnswers(j) \/ ActionFails(j) \/ ActionDropped(j)
       PROVE  SettledInv' /\ BlankPrompts' /\ PreviewFollowsSelection'
  <2>1. /\ UNCHANGED <<query, shown, selected, search, stray>> /\ token'.search = token.search
        /\ preview' = preview \/ preview'.body = "answer"
        /\ (status' = "action" /\ token.action = j) \/ UNCHANGED <<status, preview>>
    <3>1. CASE ActionAnswers(j)
      <4>1. /\ token' = [token EXCEPT !.preview = None, !.action = None]
               \/ token' = [token EXCEPT !.action = None]
            /\ preview' = preview \/ preview' = [of |-> running[j].result, body |-> "answer"]
            /\ UNCHANGED <<query, shown, selected, search, stray>>
            /\ status' = "action" /\ token.action = j
        BY <3>1 DEF ActionAnswers
      <4>2. token'.search = token.search
        BY <1>a, <4>1
      <4>3. preview' = preview \/ preview'.body = "answer"
        BY <4>1
      <4>4. QED
        BY <4>1, <4>2, <4>3
    <3>2. CASE ActionFails(j)
      BY <1>a, <3>2 DEF ActionFails
    <3>3. CASE ActionDropped(j)
      BY <3>3 DEF ActionDropped
    <3>4. QED
      BY <1>13, <3>1, <3>2, <3>3
  <2>2. query = Blank => UNCHANGED <<status, preview>>
    BY <1>a, <1>b, <2>1
  <2>3. AwaitsBatch' <=> AwaitsBatch
    BY <2>1 DEF AwaitsBatch
  <2>4. QED
    BY <1>a, <2>1, <2>2, <2>3 DEF SettledInv, BlankPrompts, PreviewFollowsSelection
<1>14. CASE UNCHANGED vars
  BY <1>a, <1>14 DEF vars, SettledInv, AwaitsBatch, BlankPrompts, PreviewFollowsSelection
<1>15. QED
  BY <1>1, <1>2, <1>3, <1>5, <1>6, <1>7, <1>8, <1>9, <1>10, <1>11, <1>12, <1>13, <1>14
     DEF Next, User, SearchStep

(* Once no search is under way, the results on screen are those of the     *)
(* query (RefreshAsync): what a search that was overtaken or cut short has *)
(* written since is the only exception, and lasts until the next query.    *)
THEOREM ScreenSettles == Spec => []SettledScreen
<1>1. ScreenInv => SettledScreen
  BY DEF ScreenInv, SettledInv, AwaitsBatch, SettledScreen, Searching
<1>2. Init => ScreenInv
  BY InvInit, ScreenInit DEF ScreenInv
<1>3. QED
  BY <1>1, <1>2, ScreenStep, PTL DEF Spec

(* Clearing the box puts the prompt on screen for good (RefreshAsync):     *)
(* only a call that was under way by then and fails late writes over it.   *)
THEOREM BlankIsPrompt == Spec => []BlankPrompts
<1>1. ScreenInv => BlankPrompts
  BY DEF ScreenInv
<1>2. Init => ScreenInv
  BY InvInit, ScreenInit DEF ScreenInv
<1>3. QED
  BY <1>1, <1>2, ScreenStep, PTL DEF Spec

(* The preview on screen is that of the selected result                    *)
(* (RefreshPreviewAsync's check of its token), unless it is an answer of   *)
(* FastFlowLM or the notice of a preview that failed late.                 *)
THEOREM PreviewFollows == Spec => []PreviewFollowsSelection
<1>1. ScreenInv => PreviewFollowsSelection
  BY DEF ScreenInv
<1>2. Init => ScreenInv
  BY InvInit, ScreenInit DEF ScreenInv
<1>3. QED
  BY <1>1, <1>2, ScreenStep, PTL DEF Spec
=============================================================================
