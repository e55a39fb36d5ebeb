------------------------- MODULE LauncherViewModel -------------------------
(***************************************************************************)
(* The launcher's view model                                               *)
(* (apps/Winspot.App/ViewModels/LauncherViewModel.cs): what is on screen   *)
(* while searches, previews and actions run asynchronously.                *)
(*                                                                         *)
(* Everything runs on the UI thread, but every await lets other handlers   *)
(* in.  A handler cancels its predecessor's token and starts anew; the     *)
(* predecessor is still there and goes on some time later, with a          *)
(* cancelled token.  Usually its await has then thrown                     *)
(* OperationCanceledException, or brought an answer that it discards.  But *)
(* the await may also have completed before the cancellation, and only its *)
(* continuation runs after: the delay of a search has elapsed, or a call   *)
(* has failed with another exception.  Such a stray continuation writes to *)
(* the screen all the same, and the variable stray remembers what it did   *)
(* until the code has written over it.                                     *)
(*                                                                         *)
(* The texts are reduced to what the properties tell apart.                *)
(***************************************************************************)
EXTENDS Integers, Sequences

CONSTANTS
  Queries,       \* texts that are not blank
  Blank,         \* a blank text
  Results,       \* search results
  AskResults,    \* the results that ask FastFlowLM
  Settings,      \* the result of the built-in settings command
  Offered,       \* how many actions each result offers
  Batches,       \* the batches of results the backend may stream, none twice in one
  None,
  Searches,      \* bound: runs of RefreshAsync that have not ended
  Previews,      \* bound: runs of RefreshPreviewAsync that have not ended
  Acceptances    \* bound: runs of AcceptSelectionAsync that have not ended

ASSUME LauncherAssumption ==
  /\ Blank \notin Queries
  /\ None \notin Results \cup {Settings} \cup Searches \cup Previews \cup Acceptances
  /\ AskResults \subseteq Results \ {Settings}
  /\ Offered \in [Results -> Nat \ {0}]
  /\ Batches \subseteq Seq(Results)

VARIABLES
  query,      \* Query
  shown,      \* Results, and the text of the search that brought them
  selected,   \* SelectedResult
  focus,      \* FocusedActionIndex
  preview,    \* what the preview shows, and of which result
  status,     \* StatusText
  search,     \* where each run of RefreshAsync is, and for which text
  looking,    \* the result each run of RefreshPreviewAsync is for
  running,    \* the result each run of AcceptSelectionAsync is for, and the
              \* query it was started under
  token,      \* the run of each kind whose token is not cancelled
  stray       \* history: "search" if a search that was overtaken, or cut short, has
              \* written the screen since the last query, "preview" if a preview has
              \* since the last selection

screen == <<query, shown, selected, focus, preview, status>>
vars == <<screen, search, looking, running, token, stray>>

Hint == [of |-> None, body |-> "hint"]
Ended == [at |-> "ended", text |-> Blank]
Over == [result |-> None, text |-> Blank]
Nothing == [items |-> <<>>, text |-> Blank]
Texts == Queries \cup {Blank}

TypeOK ==
  /\ query \in Texts
  /\ shown \in [items : Batches \cup {<<>>}, text : Texts]
  /\ selected \in Results \cup {None}
  /\ focus \in -1..(IF selected = None THEN -1 ELSE Offered[selected] - 1)
  /\ preview \in [of : Results \cup {None}, body : {"hint", "loading", "done", "answer"}]
  /\ status \in {"prompt", "searching", "outcome", "no selection", "action"}
  /\ search \in [Searches -> [at : {"ended", "delay", "stream", "batch"}, text : Texts]]
  /\ looking \in [Previews -> Results \cup {None}]
  /\ running \in [Acceptances -> [result : Results \cup {None}, text : Texts]]
  /\ token \in [search : Searches \cup {None}, preview : Previews \cup {None},
                action : Acceptances \cup {None}]
  /\ stray \subseteq {"search", "preview"}

Init ==
  /\ query = Blank /\ shown = Nothing
  /\ selected = None /\ focus = -1
  /\ preview = Hint /\ status = "prompt"
  /\ search = [i \in Searches |-> Ended]
  /\ looking = [i \in Previews |-> None]
  /\ running = [i \in Acceptances |-> Over]
  /\ token = [search |-> None, preview |-> None, action |-> None]
  /\ stray = {}

-----------------------------------------------------------------------------
(* The selection: SelectedResult's setter and RefreshPreviewAsync          *)

\* The setter with a new value.  It cancels the preview under way.
Select(r) ==
  /\ selected' = r
  /\ focus' = IF r = None THEN -1 ELSE 0
  /\ stray' = stray \ {"preview"}
  /\ \/ /\ r = None
        /\ preview' = Hint
        /\ token' = [token EXCEPT !.preview = None]
        /\ UNCHANGED looking
     \/ /\ r # None
        /\ preview' = [of |-> r, body |-> "loading"]
        /\ \E i \in Previews :
             /\ looking[i] = None
             /\ looking' = [looking EXCEPT ![i] = r]
             /\ token' = [token EXCEPT !.preview = i]

\* The setter with any value: one that is not new is left alone.  A result that
\* arrives again is a new value, as is one that the list box has dropped.
Assign(r) ==
  \/ Select(r)
  \/ r = selected /\ UNCHANGED <<selected, focus, preview, looking, token, stray>>

\* Faulty: the token is not checked after the await.
PreviewArrivesUnchecked(i) ==
  /\ looking[i] # None
  /\ preview' = [of |-> looking[i], body |-> "done"]
  /\ looking' = [looking EXCEPT ![i] = None]
  /\ UNCHANGED <<query, shown, selected, focus, status, search, running, token, stray>>

PreviewArrives(i) ==
  /\ looking[i] # None /\ token.preview = i
  /\ preview' = [of |-> looking[i], body |-> "done"]
  /\ looking' = [looking EXCEPT ![i] = None]
  /\ token' = [token EXCEPT !.preview = None]
  /\ UNCHANGED <<query, shown, selected, focus, status, search, running, stray>>

\* A cancelled preview sees its cancellation, or discards its answer.
PreviewDropped(i) ==
  /\ looking[i] # None /\ token.preview # i
  /\ looking' = [looking EXCEPT ![i] = None]
  /\ UNCHANGED <<screen, search, running, token, stray>>

\* catch (Exception): "Preview unavailable", whether cancelled or not.
PreviewFails(i) ==
  /\ looking[i] # None
  /\ preview' = [of |-> looking[i], body |-> "done"]
  /\ looking' = [looking EXCEPT ![i] = None]
  /\ stray' = IF token.preview = i THEN stray ELSE stray \cup {"preview"}
  /\ UNCHANGED <<query, shown, selected, focus, status, search, running, token>>

-----------------------------------------------------------------------------
(* Searching: Query's setter and RefreshAsync                              *)

\* Faulty: the action under way is not cancelled.
TypeTextUnderAction(t) ==
  /\ t \in Queries /\ t # query
  /\ query' = t
  /\ \E i \in Searches :
       /\ search[i] = Ended
       /\ search' = [search EXCEPT ![i] = [at |-> "delay", text |-> t]]
       /\ token' = [token EXCEPT !.search = i]
  /\ stray' = stray \ {"search"}
  /\ UNCHANGED <<shown, selected, focus, preview, status, looking, running>>

TypeText(t) ==
  /\ t \in Queries /\ t # query
  /\ query' = t
  /\ \E i \in Searches :
       /\ search[i] = Ended
       /\ search' = [search EXCEPT ![i] = [at |-> "delay", text |-> t]]
       /\ token' = [token EXCEPT !.search = i, !.action = None]
  /\ stray' = stray \ {"search"}
  /\ UNCHANGED <<shown, selected, focus, preview, status, looking, running>>

\* Faulty: the search under way is not cancelled.
TypeBlankUnderSearch ==
  /\ query' = Blank
  /\ shown' = Nothing
  /\ selected' = None /\ focus' = -1
  /\ preview' = Hint
  /\ status' = "prompt"
  /\ token' = [token EXCEPT !.preview = None, !.action = None]
  /\ stray' = {}
  /\ UNCHANGED <<search, looking, running>>

TypeBlank ==
  /\ query' = Blank
  /\ shown' = Nothing
  /\ selected' = None /\ focus' = -1
  /\ preview' = Hint
  /\ status' = "prompt"
  /\ token' = [search |-> None, preview |-> None, action |-> None]
  /\ stray' = {}
  /\ UNCHANGED <<search, looking, running>>

\* After the delay of 60 ms.  If the token was cancelled after the delay had
\* elapsed, the call that follows throws OperationCanceledException.
DelayOver(i) ==
  /\ search[i].at = "delay"
  /\ status' = "searching"
  /\ search' = [search EXCEPT ![i] = IF token.search = i THEN [@ EXCEPT !.at = "stream"]
                                                          ELSE Ended]
  /\ stray' = IF token.search = i THEN stray ELSE stray \cup {"search"}
  /\ UNCHANGED <<query, shown, selected, focus, preview, looking, running, token>>

\* Faulty: the token is not checked before a batch is shown.
BatchUnchecked(i) ==
  /\ search[i].at \in {"stream", "batch"}
  /\ \E b \in Batches :
       /\ shown' = [items |-> b, text |-> search[i].text]
       /\ Assign(IF b = <<>> THEN None
                 ELSE IF \E n \in DOMAIN b : b[n] = selected THEN selected ELSE b[1])
  /\ status' = "outcome"
  /\ search' = [search EXCEPT ![i].at = "batch"]
  /\ UNCHANGED <<query, running>>

\* Faulty: a selected result stays selected although it is gone.
BatchKeepsSelection(i) ==
  /\ search[i].at \in {"stream", "batch"} /\ token.search = i
  /\ \E b \in Batches :
       /\ shown' = [items |-> b, text |-> search[i].text]
       /\ Assign(IF selected # None \/ b = <<>> THEN selected ELSE b[1])
  /\ status' = "outcome"
  /\ search' = [search EXCEPT ![i].at = "batch"]
  /\ UNCHANGED <<query, running>>

\* A batch of results: the selected result stays selected if it is among them.
Batch(i) ==
  /\ search[i].at \in {"stream", "batch"} /\ token.search = i
  /\ \E b \in Batches :
       /\ shown' = [items |-> b, text |-> search[i].text]
       /\ Assign(IF b = <<>> THEN None
                 ELSE IF \E n \in DOMAIN b : b[n] = selected THEN selected ELSE b[1])
  /\ status' = "outcome"
  /\ search' = [search EXCEPT ![i].at = "batch"]
  /\ UNCHANGED <<query, running>>

SearchEnds(i) ==
  /\ search[i].at = "batch" /\ token.search = i
  /\ search' = [search EXCEPT ![i] = Ended]
  /\ UNCHANGED <<screen, looking, running, token, stray>>

\* The stream ends without a batch: StreamSearchAsync takes an empty line, or the
\* end of the pipe, for the end of the results.
SearchStopsShort(i) ==
  /\ search[i].at = "stream" /\ token.search = i
  /\ search' = [search EXCEPT ![i] = Ended]
  /\ stray' = stray \cup {"search"}
  /\ UNCHANGED <<screen, looking, running, token>>

\* A cancelled search sees its cancellation, or discards a batch and returns.
SearchDropped(i) ==
  /\ search[i].at # "ended" /\ token.search # i
  /\ search' = [search EXCEPT ![i] = Ended]
  /\ UNCHANGED <<screen, looking, running, token, stray>>

\* catch (Exception): "Backend unavailable", whether cancelled or not.
SearchFails(i) ==
  /\ search[i].at \in {"stream", "batch"}
  /\ shown' = Nothing
  /\ selected' = None /\ focus' = -1
  /\ preview' = Hint
  /\ token' = [token EXCEPT !.preview = None]
  /\ status' = "outcome"
  /\ search' = [search EXCEPT ![i] = Ended]
  /\ stray' = IF token.search = i THEN stray ELSE stray \cup {"search"}
  /\ UNCHANGED <<query, looking, running>>

-----------------------------------------------------------------------------
(* Running an action: AcceptSelectionAsync                                 *)

AcceptNothing ==
  /\ selected = None
  /\ status' = "no selection"
  /\ UNCHANGED <<query, shown, selected, focus, preview, search, looking, running, token,
                 stray>>

AcceptSettings ==
  /\ selected = Settings
  /\ status' = "action"
  /\ UNCHANGED <<query, shown, selected, focus, preview, search, looking, running, token,
                 stray>>

Accept ==
  /\ selected \notin {None, Settings}
  /\ status' = "action"
  /\ \E j \in Acceptances :
       /\ running[j] = Over
       /\ running' = [running EXCEPT ![j] = [result |-> selected, text |-> query]]
       /\ token' = [token EXCEPT !.action = j]
  /\ UNCHANGED <<query, shown, selected, focus, preview, search, looking, stray>>

\* The action succeeds.  FastFlowLM's answer goes to the preview, and cancels the
\* preview under way.
ActionAnswers(j) ==
  /\ running[j] # Over /\ token.action = j
  /\ status' = "action"
  /\ \/ /\ running[j].result \in AskResults
        /\ preview' = [of |-> running[j].result, body |-> "answer"]
        /\ token' = [token EXCEPT !.preview = None, !.action = None]
     \/ /\ running[j].result \notin AskResults
        /\ token' = [token EXCEPT !.action = None]
        /\ UNCHANGED preview
  /\ running' = [running EXCEPT ![j] = Over]
  /\ UNCHANGED <<query, shown, selected, focus, search, looking, stray>>

ActionFails(j) ==
  /\ running[j] # Over /\ token.action = j
  /\ status' = "action"
  /\ running' = [running EXCEPT ![j] = Over]
  /\ token' = [token EXCEPT !.action = None]
  /\ UNCHANGED <<query, shown, selected, focus, preview, search, looking, stray>>

\* A cancelled action ends without a trace, even if it fails.
ActionDropped(j) ==
  /\ running[j] # Over /\ token.action # j
  /\ running' = [running EXCEPT ![j] = Over]
  /\ UNCHANGED <<screen, search, looking, token, stray>>

-----------------------------------------------------------------------------
(* Moving about                                                            *)

Clamp(n, low, high) == IF n < low THEN low ELSE IF n > high THEN high ELSE n

\* Where MoveSelection(delta) goes from the selected result.
MoveTargets(delta) ==
  LET items == shown.items
      at == {n \in DOMAIN items : items[n] = selected}
  IN  IF items = <<>> THEN {None}
      ELSE IF at = {} THEN {items[1]}
      ELSE {items[Clamp(n + delta, 1, Len(items))] : n \in at}

MoveSelection(delta) ==
  /\ \E r \in MoveTargets(delta) : r # selected /\ Select(r)
  /\ UNCHANGED <<query, shown, status, search, running>>

\* The user clicks on a result.
Click ==
  /\ \E n \in DOMAIN shown.items : shown.items[n] # selected /\ Select(shown.items[n])
  /\ UNCHANGED <<query, shown, status, search, running>>

\* FocusActions, MoveActionRight, MoveActionLeft and FocusResults.
MoveFocus ==
  /\ focus' \in IF selected = None THEN {-1}
                ELSE {-1, 0} \cup ({focus - 1, focus + 1} \cap 0..(Offered[selected] - 1))
  /\ focus' # focus
  /\ UNCHANGED <<query, shown, selected, preview, status, search, looking, running, token,
                 stray>>

User ==
  \/ \E t \in Queries : TypeText(t)
  \/ TypeBlank
  \/ AcceptNothing \/ AcceptSettings \/ Accept
  \/ \E delta \in {-1, 1} : MoveSelection(delta)
  \/ Click
  \/ MoveFocus

SearchStep(i) ==
  \/ DelayOver(i) \/ Batch(i) \/ SearchEnds(i) \/ SearchStopsShort(i) \/ SearchDropped(i)
  \/ SearchFails(i)

Next ==
  \/ User
  \/ \E i \in Searches : SearchStep(i)
  \/ \E i \in Previews : PreviewArrives(i) \/ PreviewDropped(i) \/ PreviewFails(i)
  \/ \E j \in Acceptances : ActionAnswers(j) \/ ActionFails(j) \/ ActionDropped(j)

Spec == Init /\ [][Next]_vars

-----------------------------------------------------------------------------
(* Properties                                                              *)

Searching == \E i \in Searches : token.search = i /\ search[i].at # "ended"

\* RefreshAsync updates "results, selected result, preview, and status text" for
\* the query: once no search is under way any more, no results of an earlier
\* query are on screen, and nothing says that a search is running.  Unless a
\* search that was overtaken or cut short has written since the query was typed:
\* what it leaves lasts until the next query, and no longer.
SettledScreen ==
  ~Searching /\ "search" \notin stray =>
    /\ shown.items # <<>> => shown.text = query
    /\ status # "searching"

\* RefreshAsync: "if null or whitespace the method clears results, resets the
\* preview, and sets the status to prompt the user to start typing", and the
\* screen stays like that until the user does something else, or a call fails
\* that was under way when the box was cleared.
BlankPrompts ==
  query = Blank /\ stray = {} =>
    /\ shown.items = <<>> /\ selected = None /\ preview = Hint
    /\ status \in {"prompt", "no selection"}

\* RefreshPreviewAsync: the preview is that of the selected result, unless it is
\* a FastFlowLM answer, or a preview has failed after the selection moved on.
PreviewFollowsSelection ==
  preview.of = selected \/ preview.body = "answer" \/ "preview" \in stray

\* The first two as the comments have them, without the exception.  The code has
\* neither: the catch of RefreshAsync does not look at its token, and
\* StreamSearchAsync takes the end of the pipe for the end of the results.
AlwaysSettled == ~Searching => /\ shown.items # <<>> => shown.text = query
                               /\ status # "searching"
BlankAlwaysPrompts == query = Blank => status \in {"prompt", "no selection"}

\* AcceptSelectionAsync runs the selected result: that is always one on screen,
\* and nothing only if nothing is on screen.
SelectionOnScreen ==
  IF shown.items = <<>> THEN selected = None
  ELSE \E n \in DOMAIN shown.items : shown.items[n] = selected

\* RefreshAsync's check of its token: results that come up are always those of
\* the text in the query box, whatever became of earlier searches.
NewestResultsOnly ==
  [][shown' # shown /\ shown'.items # <<>> => shown'.text = query]_vars

\* LauncherViewModelTests, "CancelsActionBeforeItCanOverwritePreview": an answer
\* comes up only under the query its action was started under.
AnswersAreCurrent ==
  [][\A j \in Acceptances :
       running[j] # Over /\ running'[j] = Over /\ preview' # preview
         => running[j].text = query]_vars
=============================================================================
