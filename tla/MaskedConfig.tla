---------------------------- MODULE MaskedConfig -----------------------------
(***************************************************************************)
(* Lists of the configuration whose items carry secrets, edited by clients *)
(* that only ever see a mask.  A client reads the masked list, edits it    *)
(* for as long as it likes, and submits the whole list; the secrets it did *)
(* not type are taken from the stored list, item by item, by the identity  *)
(* of the items.                                                           *)
(***************************************************************************)
EXTENDS Integers, Sequences, FiniteSets, SequencesExt

CONSTANTS
    Client,
    Id, NoId,   \* values of the identifying key; NoId when an item has none
    Label,      \* everything else an item may say
    MaxLength,  \* bound: items in a list
    MaxEdit     \* bound: edits of all clients

MaskedAssumption ==
    /\ NoId \notin Id /\ MaxLength \in Nat \ {0} /\ MaxEdit \in Nat

VARIABLES
    stored,     \* the list in the configuration
    view,       \* what each client has in its editor
    edits

vars == <<stored, view, edits>>

\* A secret is told apart by the item it was typed for.
None == [kind |-> "none", of |-> NoId]
Empty == [kind |-> "empty", of |-> NoId]
Mask == [kind |-> "mask", of |-> NoId]
Secret(id) == [kind |-> "secret", of |-> id]
AnyId == Id \cup {NoId}
ItemOf(secrets) == [id : AnyId, label : Label, secret : secrets]
Secrets == {Secret(id) : id \in AnyId}
ListOf(S) == UNION {[1..n -> S] : n \in 0..MaxLength}

TypeOK ==
    /\ stored \in ListOf(ItemOf(Secrets \cup {None}))
    /\ view \in [Client -> ListOf(ItemOf(Secrets \cup {None, Empty, Mask}))]
    /\ edits \in 0..MaxEdit

Init ==
    /\ stored \in {<<>>} \cup {<<[id |-> i, label |-> l, secret |-> Secret(i)]>> :
                                   i \in AnyId, l \in Label}
    /\ view = [c \in Client |-> <<>>]
    /\ edits = 0
------------------------------------------------------------------------------
(* Masking and merging *)

\* mask_secrets: an empty secret is masked as well.
Masked(list) ==
    [n \in DOMAIN list |->
        [list[n] EXCEPT !.secret = IF @ = None THEN None ELSE Mask]]

Sensitive(list) == \E n \in DOMAIN list : list[n].secret # None

Named(list, id) == {n \in DOMAIN list : list[n].id = id}

\* Mutant: items are matched by their place in the list.
ByPlace(old, new, n) == IF n \in DOMAIN old THEN {n} ELSE {}

\* The items of the stored list the n-th submitted item stands for.
Match(old, new, n) ==
    IF ~Sensitive(old) /\ ~Sensitive(new)
      THEN DOMAIN old \cap {n}
    ELSE IF new[n].id # NoId /\ Cardinality(Named(old, new[n].id)) = 1
                             /\ Cardinality(Named(new, new[n].id)) = 1
      THEN Named(old, new[n].id)
      ELSE {}

Typed(secret) == secret.kind = "secret"

\* _merge_masked_value of an item and what it stands for; the keys a client
\* leaves out are kept.
Merged(old, new) ==
    [n \in DOMAIN new |->
        LET from == Match(old, new, n)
            kept == IF from = {} THEN None ELSE old[CHOOSE m \in from : TRUE].secret
        IN  [new[n] EXCEPT !.secret = IF Typed(@) THEN @ ELSE kept]]
------------------------------------------------------------------------------
(* Clients *)

Read(c) ==
    /\ view' = [view EXCEPT ![c] = Masked(stored)]
    /\ UNCHANGED <<stored, edits>>

Retyped(x) ==
    {[x EXCEPT !.label = l] : l \in Label} \cup {[x EXCEPT !.id = i] : i \in AnyId}
    \cup {[x EXCEPT !.secret = s] : s \in {None, Empty, Mask, Secret(x.id)}}

Changes(list) ==
    {RemoveAt(list, n) : n \in DOMAIN list} \cup {Reverse(list)}
    \cup (UNION {{[list EXCEPT ![n] = x] : x \in Retyped(list[n])} : n \in DOMAIN list})
    \cup IF Len(list) < MaxLength
           THEN {Append(list, x) : x \in ItemOf({None, Empty, Mask})}
           ELSE {}

Edit(c) ==
    /\ edits < MaxEdit
    /\ edits' = edits + 1
    /\ view' \in {[view EXCEPT ![c] = list] : list \in Changes(view[c])}
    /\ UNCHANGED stored

\* update_config_from_client; the answer shows the client the new list.
Submit(c) ==
    /\ stored' = Merged(stored, view[c])
    /\ view' = [view EXCEPT ![c] = Masked(stored')]
    /\ UNCHANGED edits

Next == \E c \in Client : Read(c) \/ Edit(c) \/ Submit(c)

Spec == Init /\ [][Next]_vars
------------------------------------------------------------------------------
(* Properties *)

\* No submission, of whatever stale, reordered or repeated list, gives the secret
\* of one item to another: a client would send it to the wrong service without
\* having seen it (test_config_service_merges_secret_lists_by_stable_identity).
\* Secrets the client typed before it renamed the item in the same editor are its
\* own.
SecretStaysWithItsOwner ==
    \A n \in DOMAIN stored' : \A m \in DOMAIN stored :
         LET s == stored'[n].secret
         IN  s.kind = "secret" /\ stored[m].secret = s /\ s.of # stored'[n].id =>
               \/ \E k \in DOMAIN stored : stored[k].id = stored'[n].id /\ stored[k].secret = s
               \/ \E c \in Client : \E k \in DOMAIN view[c] : view[c][k].secret = s

\* A list that comes back as it was shown, or with items reordered, relabelled or
\* removed, keeps every secret whose item can be told from the others.
UntouchedSecretSurvives ==
    \A c \in Client : Submit(c) =>
         \A n \in DOMAIN view[c] : \A m \in DOMAIN stored :
            LET id == view[c][n].id
            IN  /\ id # NoId /\ stored[m].id = id
                /\ Cardinality(Named(stored, id)) = 1 /\ Cardinality(Named(view[c], id)) = 1
                /\ view[c][n].secret \in {Mask, Empty}
                => stored'[n].secret = stored[m].secret
=============================================================================
