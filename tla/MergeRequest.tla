---------------------------- MODULE MergeRequest ----------------------------
(***************************************************************************)
(* The end of terraci summary: pipelines of one merge or pull request post *)
(* what they composed in its comment and synchronize its labels.  The      *)
(* comment records, in metadata nobody sees, the labels that come from it. *)
(* Every request may fail, with or without its effect, and jobs may be     *)
(* started again.                                                          *)
(***************************************************************************)
EXTENDS Reports

CONSTANTS
  OneByOne,     \* labels are removed one by one (GitHub)
  UserLabels,   \* labels that people put on the request and take off
  MaxEdits      \* bound on what they do

\* The first word of a generated label is its template; people leave those
\* labels alone.
ASSUME OwnLabelsAssumption == \A l \in UserLabels : l[1] \notin Templates

VARIABLES
  notes,      \* the TerraCI comments of the request, oldest first
  labels,     \* the labels of the request
  post,       \* per pipeline: where its posting is
  own,        \* the labels people have put on it
  edits,
  trouble     \* history: has a request failed, have two pipelines posted at once
reviewVars == <<notes, labels, post, own, edits, trouble>>
vars == <<workspaceVars, reviewVars>>

idle == [at |-> "idle", previous |-> {}, note |-> 0, remove |-> {}]

ReviewInit ==
  /\ WorkspaceInit
  /\ notes = <<>>
  /\ labels = {}
  /\ post = [w \in Pipelines |-> idle]
  /\ own = {}
  /\ edits = 0
  /\ trouble = {}

posting(w) == post[w].at \notin {"idle", "done", "failed"}

-----------------------------------------------------------------------------

FindTerraCIComment == IF notes = <<>> THEN 0 ELSE 1
ExtractManagedLabels(i) == notes[i].labels
EmbedManagedLabels(body) == [labels |-> body.labels, body |-> body]

\* DiffManagedLabels
added(previous, current) == current \ previous
removedNever(previous, current) == {}   \* mutant: labels are only ever added
removed(previous, current) == previous \ current

\* prepareSummaryPost: the labels of the present comment; an error is a warning.
ReadComment(w) ==
  /\ at[w] = "post" /\ post[w].at \in {"idle", "failed"}
  /\ LET overlap == IF \E v \in Pipelines \ {w} : posting(v) THEN {"overlap"} ELSE {}
     IN  \/ /\ post' = [post EXCEPT ![w] = [idle EXCEPT !.at = "find", !.previous =
                         IF FindTerraCIComment = 0 THEN {} ELSE ExtractManagedLabels(FindTerraCIComment)]]
            /\ trouble' = trouble \cup overlap
            /\ UNCHANGED workspaceVars
         \/ /\ Fault /\ UNCHANGED filesVars
            /\ post' = [post EXCEPT ![w] = [idle EXCEPT !.at = "find"]]
            /\ trouble' = trouble \cup overlap \cup {"failure"}
  /\ UNCHANGED <<notes, labels, own, edits>>

failure == Fault /\ trouble' = trouble \cup {"failure"} /\ UNCHANGED filesVars
nothingFails == UNCHANGED <<trouble, workspaceVars>>
failedPost(w) == failure /\ post' = [post EXCEPT ![w].at = "failed"]

\* Mutant: the comment is not looked for.
FindNoteNever(w) ==
  /\ post[w].at = "find"
  /\ post' = [post EXCEPT ![w].at = "upsert"]
  /\ UNCHANGED <<workspaceVars, notes, labels, own, edits, trouble>>

\* UpsertComment looks for the comment again, then updates or creates it.
FindNote(w) ==
  /\ post[w].at = "find"
  /\ \/ /\ post' = [post EXCEPT ![w].at = "upsert", ![w].note = FindTerraCIComment]
        /\ nothingFails
     \/ failedPost(w)
  /\ UNCHANGED <<notes, labels, own, edits>>

write(w) ==
  notes' = IF post[w].note = 0 THEN Append(notes, EmbedManagedLabels(shown[w]))
                               ELSE [notes EXCEPT ![post[w].note] = EmbedManagedLabels(shown[w])]

\* No label is synchronized when there were none and are none.
UpsertNote(w) ==
  /\ post[w].at = "upsert"
  /\ \/ /\ write(w)
        /\ post' = [post EXCEPT ![w].at = IF post[w].previous \cup shown[w].labels = {} THEN "done" ELSE "remove",
                                ![w].remove = removed(post[w].previous, shown[w].labels)]
        /\ nothingFails
     \/ failedPost(w) /\ (write(w) \/ UNCHANGED notes)
  /\ UNCHANGED <<labels, own, edits>>

\* A failed synchronization is a warning: the job is done.
givenUp(w) == failure /\ post' = [post EXCEPT ![w].at = "done"]

\* GitHub refuses to remove a label that the request does not have.
labelIsGone(w) ==
  /\ OneByOne /\ ~post[w].remove \subseteq labels
  /\ post' = [post EXCEPT ![w].at = "done"]
  /\ trouble' = trouble \cup {"failure"}
  /\ UNCHANGED workspaceVars

RemoveLabels(w) ==
  /\ post[w].at = "remove"
  /\ \/ /\ ~OneByOne \/ post[w].remove = {}
        /\ labels' = labels \ post[w].remove
        /\ post' = [post EXCEPT ![w].at = "add"]
        /\ nothingFails
     \/ /\ OneByOne
        /\ \E l \in post[w].remove \cap labels :
             /\ labels' = labels \ {l}
             /\ post' = [post EXCEPT ![w].remove = @ \ {l}]
        /\ nothingFails
     \/ /\ post[w].remove # {}
        /\ givenUp(w) \/ labelIsGone(w)
        /\ UNCHANGED labels
  /\ UNCHANGED <<notes, own, edits>>

AddLabels(w) ==
  LET add == added(post[w].previous, shown[w].labels)
  IN  /\ post[w].at = "add"
      /\ \/ labels' = labels \cup add /\ post' = [post EXCEPT ![w].at = "done"] /\ nothingFails
         \/ add # {} /\ givenUp(w) /\ UNCHANGED labels
      /\ UNCHANGED <<notes, own, edits>>

EndPost(w) ==
  /\ at[w] = "post" /\ post[w].at = "done"
  /\ at' = [at EXCEPT ![w] = "done"]
  /\ UNCHANGED <<kind, plan, results, report, ended, told, faults, shown, reviewVars>>

\* People put their own labels on the request and take them off.
Edit ==
  /\ edits < MaxEdits
  /\ \E l \in UserLabels :
       \/ labels' = labels \cup {l} /\ own' = own \cup {l}
       \/ labels' = labels \ {l} /\ own' = own \ {l}
  /\ edits' = edits + 1
  /\ UNCHANGED <<workspaceVars, notes, post, trouble>>

Post(w) == ReadComment(w) \/ FindNote(w) \/ UpsertNote(w) \/ RemoveLabels(w) \/ AddLabels(w) \/ EndPost(w)

\* Workspaces are not shared: what pipelines do before they post commutes, and
\* only one at a time is interleaved with the posting of the others.
Turn(w) == \A v \in Pipelines \ {w} : at[v] \in {"post", "done", "failed"} \/ ended[v] = {}

Next ==
  \/ \E w \in Pipelines : (Turn(w) /\ WorkspaceNext(w) /\ UNCHANGED reviewVars) \/ Post(w)
  \/ Edit

Spec == ReviewInit /\ [][Next]_vars

-----------------------------------------------------------------------------
(* Properties *)

\* However many pipelines a request has, whatever request of theirs fails or is
\* answered too late, and however often a job is started again: as long as no
\* two post at the same time there is one TerraCI comment
\* (mr/service.go:52-75, pr/service.go:47-69).
OneComment == "overlap" \notin trouble => Len(notes) <= 1

\* When nothing has failed or overlapped, the request carries, once a pipeline
\* has posted, the labels its comment records and those people have put there,
\* whatever pipelines before it had generated (posting.go:35-66, managed_labels.go:98-119).
LabelsFollowComment ==
  trouble = {} /\ (\A w \in Pipelines : ~posting(w)) =>
    labels = own \cup UNION {notes[i].labels : i \in DOMAIN notes}
=============================================================================
