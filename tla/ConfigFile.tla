----------------------------- MODULE ConfigFile ------------------------------
(***************************************************************************)
(* The configuration file and the processes that share it.  Each process   *)
(* works on the configuration it loaded; a save merges what the process    *)
(* changed into what the file holds by then.  Three kinds of values live   *)
(* in it: values the candidate edits, the grant of the autopilot account,  *)
(* which only the authorization service may change, and the pair of HH     *)
(* tokens, which HH replaces at every refresh.                             *)
(*                                                                         *)
(* Writers read, merge and replace the file under one lock, and the file   *)
(* is replaced by a rename, so that a write is one step and a death during *)
(* it leaves the old file.                                                 *)
(***************************************************************************)
EXTENDS Integers, FiniteSets

CONSTANTS
    Proc,       \* processes: web requests, commands, runs, the MCP server
    Key,        \* values the candidate may edit
    Value, Default,
    MaxToken,   \* bound: refreshes
    MaxGrant,   \* bound: generations of the grant
    MaxStart    \* bound: processes started

ConfigAssumption ==
    /\ Default \in Value
    /\ MaxToken \in Nat \ {0} /\ MaxGrant \in Nat /\ MaxStart \in Nat

VARIABLES
    file,       \* the configuration file
    mem,        \* WorkHunter.config of each process
    base,       \* its _config_baseline
    up,         \* processes that run
    started,    \* how many processes have started
    client,     \* tokens of the API client of each process
    hh,         \* the tokens HH honours; the candidate holds none before a login
    edited,     \* history: values a process changed and has not written
    word        \* history: what was last written on somebody's word

vars == <<file, mem, base, up, started, client, hh, edited, word>>

NoToken == 0
NoClient == [token |-> NoToken, pc |-> "none"]
Absent == -1    \* the account is not in the list
Grants == Absent..MaxGrant
Config == [user : [Key -> Value], grant : Grants, token : 0..MaxToken]

TypeOK ==
    /\ file \in Config /\ mem \in [Proc -> Config] /\ base \in [Proc -> Config]
    /\ up \subseteq Proc /\ started \in 0..MaxStart
    /\ client \in [Proc -> [token : 0..MaxToken, pc : {"none", "ready", "refreshed"}]]
    /\ hh \in 0..MaxToken
    /\ edited \in [Proc -> SUBSET Key] /\ word \in [Key -> Value]

Blank == [user |-> [k \in Key |-> Default], grant |-> 0, token |-> 1]

Init ==
    /\ file = Blank
    /\ mem = [p \in Proc |-> Blank] /\ base = [p \in Proc |-> Blank]
    /\ up = {} /\ started = 0
    /\ client = [p \in Proc |-> NoClient]
    /\ hh = 1
    /\ edited = [p \in Proc |-> {}]
    /\ word = [k \in Key |-> Default]
------------------------------------------------------------------------------
(* Merging *)

Pick(b, d, f) == IF b = d THEN f ELSE d

\* merge_config_snapshot_changes
Merge(b, d, f) ==
    [user |-> [k \in Key |-> Pick(b.user[k], d.user[k], f.user[k])],
     grant |-> Pick(b.grant, d.grant, f.grant),
     token |-> Pick(b.token, d.token, f.token)]

\* preserve_managed_autopilot_fields: an account new to the file has no grant.
Preserve(stored, config) ==
    [config EXCEPT !.grant = IF @ = Absent THEN Absent
                             ELSE IF stored.grant = Absent THEN 0 ELSE stored.grant]

\* Mutant: the baseline keeps what the process loaded.
AcceptKeepsBaseline(p, config, baseline) ==
    /\ mem' = [mem EXCEPT ![p] = config]
    /\ UNCHANGED base

\* _accept_config
Accept(p, config, baseline) ==
    /\ mem' = [mem EXCEPT ![p] = config]
    /\ base' = [base EXCEPT ![p] = baseline]

Unwritten(p) == {k \in edited[p] : mem'[p].user[k] # base'[p].user[k]}
------------------------------------------------------------------------------
(* A process *)

\* load_config
Start(p) ==
    /\ p \notin up /\ started < MaxStart
    /\ up' = up \cup {p} /\ started' = started + 1
    /\ Accept(p, file, file)
    /\ UNCHANGED <<file, client, hh, edited, word>>

Die(p) ==
    /\ p \in up
    /\ up' = up \ {p}
    /\ client' = [client EXCEPT ![p] = NoClient]
    /\ edited' = [edited EXCEPT ![p] = {}]
    /\ UNCHANGED <<file, mem, base, started, hh, word>>

\* A change of the configuration in memory, or of the managed field.
Edit(p) ==
    /\ p \in up
    /\ \/ \E k \in Key, v \in Value :
            /\ mem' = [mem EXCEPT ![p].user[k] = v]
            /\ edited' = [edited EXCEPT ![p] =
                            IF v = base[p].user[k] THEN @ \ {k} ELSE @ \cup {k}]
       \/ /\ \E g \in 0..MaxGrant : mem' = [mem EXCEPT ![p].grant = g]
          /\ UNCHANGED edited
    /\ UNCHANGED <<file, base, up, started, client, hh, word>>

\* WorkHunter.save_config
Save(p) ==
    /\ p \in up
    /\ file' = Preserve(file, Merge(base[p], mem[p], file))
    /\ Accept(p, file', file')
    /\ word' = [k \in Key |-> IF k \in edited[p] THEN mem[p].user[k] ELSE word[k]]
    /\ edited' = [edited EXCEPT ![p] = {}]
    /\ UNCHANGED <<up, started, client, hh>>

\* _update_config_fresh with one value; what the process had not written is gone.
Patch(p) ==
    /\ p \in up
    /\ \E k \in Key, v \in Value :
         /\ file' = Preserve(file, [file EXCEPT !.user[k] = v])
         /\ word' = [word EXCEPT ![k] = v]
    /\ Accept(p, file', file')
    /\ edited' = [edited EXCEPT ![p] = {}]
    /\ UNCHANGED <<up, started, client, hh>>

\* reset_config_defaults; the tokens go with the rest, and so does the account,
\* unless it is the one the default configuration names.
Reset(p) ==
    /\ p \in up
    /\ \E account \in {Absent, 0} :
         file' = Preserve(file, [Blank EXCEPT !.grant = account, !.token = NoToken])
    /\ Accept(p, file', file')
    /\ word' = [k \in Key |-> Default]
    /\ edited' = [edited EXCEPT ![p] = {}]
    /\ UNCHANGED <<up, started, client, hh>>

\* The candidate describes the account again.
AddAccount(p) ==
    /\ p \in up /\ file.grant = Absent
    /\ \E g \in 0..MaxGrant : file' = Preserve(file, [file EXCEPT !.grant = g])
    /\ Accept(p, file', file')
    /\ edited' = [edited EXCEPT ![p] = {}]
    /\ UNCHANGED <<up, started, client, hh, word>>

\* _update_autopilot_authorization_projection
Project(p) ==
    /\ p \in up /\ file.grant # Absent
    /\ \E g \in 0..MaxGrant : file' = [file EXCEPT !.grant = g]
    /\ Accept(p, file', file')
    /\ edited' = [edited EXCEPT ![p] = {}]
    /\ UNCHANGED <<up, started, client, hh, word>>
------------------------------------------------------------------------------
(* Tokens *)

\* _hh_runtime reads the file again; _hh_client_for_account does not.
NewClient(p) ==
    /\ p \in up
    /\ \/ /\ Accept(p, Merge(base[p], mem[p], file), file)
          /\ edited' = [edited EXCEPT ![p] = Unwritten(p)]
       \/ UNCHANGED <<mem, base, edited>>
    /\ client' = [client EXCEPT ![p] = [token |-> mem'[p].token, pc |-> "ready"]]
    /\ UNCHANGED <<file, up, started, hh, word>>

\* HHApiSession.refresh_token: HH replaces the pair of the token it is shown, and
\* refuses any other.
Refresh(p) ==
    /\ p \in up /\ client[p].pc = "ready"
    /\ client[p].token = hh /\ hh # NoToken /\ hh < MaxToken
    /\ hh' = hh + 1
    /\ client' = [client EXCEPT ![p] = [token |-> hh + 1, pc |-> "refreshed"]]
    /\ UNCHANGED <<file, mem, base, up, started, edited, word>>

\* _persist_hh_identity_patch: what the process had not written stays so.
Persist(p) ==
    /\ p \in up /\ client[p].pc = "refreshed"
    /\ file' = Preserve(file, [file EXCEPT !.token = client[p].token])
    /\ Accept(p, [Merge(base[p], mem[p], file') EXCEPT !.token = client[p].token], file')
    /\ edited' = [edited EXCEPT ![p] = Unwritten(p)]
    /\ client' = [client EXCEPT ![p].pc = "ready"]
    /\ UNCHANGED <<up, started, hh, word>>

\* The answer of the refresh is lost, or the process dies before it is written:
\* the candidate logs in again, which HH answers with new tokens.
Login(p) ==
    /\ p \in up /\ file.token # hh /\ hh < MaxToken
    /\ \A q \in Proc : client[q].pc # "refreshed"
    /\ hh' = hh + 1
    /\ file' = Preserve(file, [file EXCEPT !.token = hh + 1])
    /\ Accept(p, [Merge(base[p], mem[p], file') EXCEPT !.token = hh + 1], file')
    /\ edited' = [edited EXCEPT ![p] = Unwritten(p)]
    /\ UNCHANGED <<up, started, client, word>>

LoseAnswer(p) ==
    /\ client[p].pc = "refreshed"
    /\ client' = [client EXCEPT ![p] = NoClient]
    /\ UNCHANGED <<file, mem, base, up, started, hh, edited, word>>
------------------------------------------------------------------------------
Next == \E p \in Proc :
    \/ Start(p) \/ Die(p) \/ Edit(p) \/ Save(p) \/ Patch(p) \/ Reset(p)
    \/ AddAccount(p) \/ Project(p)
    \/ NewClient(p) \/ Refresh(p) \/ Persist(p) \/ Login(p) \/ LoseAnswer(p)

Spec == Init /\ [][Next]_vars
------------------------------------------------------------------------------
(* Properties *)

\* What a process did not change it cannot undo: the file holds, for every
\* value the candidate edits, what was last written on somebody's word, however
\* old the configuration is that the writer loaded.
NoLostUpdate == \A k \in Key : file.user[k] = word[k]

\* Reading the file again and writing the tokens of a refresh leave what the
\* process has changed and not yet written as it was.
EditsSurviveTokens ==
    client' # client =>
         \A p \in up \cap up' : \A k \in edited[p] :
             mem'[p].user[k] = mem[p].user[k]

\* Saving never brings back a token HH has replaced: the file goes from a token
\* to a newer one, or to none with a reset.
TokensNeverGoBack == file'.token >= file.token \/ file'.token = NoToken

\* The grant in the file changes only by the service that owns it, whatever the
\* process that saves, patches or refreshes has in memory; a reset takes the
\* account out and an account that comes back has no grant.
GrantIsManaged ==
    file'.grant # file.grant =>
         \/ \E p \in Proc : Project(p)
         \/ file'.grant = Absent
         \/ file.grant = Absent /\ file'.grant = 0
=============================================================================
