--------------------------- MODULE WebhookDelivery ---------------------------
(***************************************************************************)
(* The webhooks of the users: registering a URL under a cap and a random   *)
(* secret, the dispatcher of every instance that turns broadcast events    *)
(* into deliveries, the retries within a delivery's budget of time, its    *)
(* signature and its audit row; shutdowns, restarts and rotated keys.      *)
(* One user.  Time is counted in 5 s and runs per delivery.                *)
(***************************************************************************)
EXTENDS Integers, Sequences, FiniteSets

CONSTANTS
    Url,          \* what the user registers
    Event,        \* published events: names of the "event" discriminator
    Subscribed,   \* the events every config asks for
    Instances,
    Requests,     \* POST /webhooks under way at the same time
    Keys,         \* values WEBHOOK_ENC_KEY takes from one start to the next
    Cap,          \* 10 active configs
    Buffer,       \* 64: the channel of SubscribeRaw
    MaxFaults     \* bound: lookups that fail, restarts

VARIABLES
    configs,     \* url -> the key its secret is sealed with, or "none"
    request,     \* the creations under way
    process,     \* instance -> "up", "stopping", "down"
    key,         \* instance -> the key it runs with
    inbox,       \* instance -> events its dispatcher has not taken
    published,   \* events published so far
    delivery,    \* instance, event, url -> the goroutine
    audit,       \* webhook_delivery_log
    faults

vars == <<configs, request, process, key, inbox, published, delivery, audit, faults>>

MaxAttempts == 3
ClientTimeout == 2
Delays == <<1, 6>>

\* Mutation: the time the attempts need, without the pauses between them.
BudgetOfAttempts == MaxAttempts * ClientTimeout

Budget == MaxAttempts * ClientTimeout + Delays[1] + Delays[2]

Delivery == Instances \X Event \X Url
Inst(d) == d[1]
Config(d) == d[3]
NotStarted == [pc |-> "none", elapsed |-> 0, tries |-> 0, status |-> "none", signed |-> TRUE,
               orphan |-> FALSE, \* its config is deleted: the row it refers to is gone
               cut |-> FALSE]    \* history: the process was told to stop on the way

Init ==
    /\ configs = [u \in Url |-> "none"]
    /\ request = [r \in Requests |-> [pc |-> "idle"]]
    /\ process = [i \in Instances |-> "up"]
    /\ key \in [Instances -> Keys] /\ \A i, j \in Instances : key[i] = key[j]
    /\ inbox = [i \in Instances |-> <<>>]
    /\ published = {}
    /\ delivery = [d \in Delivery |-> NotStarted]
    /\ audit = {}
    /\ faults = 0

Active(c) == {u \in Url : c[u] # "none"}
Set(d, r) == delivery' = [delivery EXCEPT ![d] = r]
Fault == faults < MaxFaults /\ faults' = faults + 1

----------------------------------------------------------------------------
(* Registering and deleting.                                               *)

\* handleCreateWebhook's own count comes first.
Create(r, u) ==
    /\ request[r].pc = "idle"
    /\ Cardinality(Active(configs)) < Cap
    /\ request' = [request EXCEPT ![r] = [pc |-> "statement", url |-> u]]
    /\ UNCHANGED <<configs, process, key, inbox, published, delivery, audit, faults>>

\* The INSERT reads the rows committed when it starts, then waits for the lock.
TakeSnapshot(r) ==
    /\ request[r].pc = "statement"
    /\ request' = [request EXCEPT ![r] =
                     [pc |-> "locking", url |-> @.url, seen |-> Active(configs) \ {@.url}]]
    /\ UNCHANGED <<configs, process, key, inbox, published, delivery, audit, faults>>

Insert(r, i) ==
    /\ request[r].pc = "locking" /\ process[i] # "down"
    /\ configs' = IF Cardinality(request[r].seen) < Cap
                  THEN [configs EXCEPT ![request[r].url] = key[i]] ELSE configs
    /\ request' = [request EXCEPT ![r] = [pc |-> "idle"]]
    /\ UNCHANGED <<process, key, inbox, published, delivery, audit, faults>>

\* The audit rows go with the config.
DeleteConfig(u) ==
    /\ configs[u] # "none"
    /\ configs' = [configs EXCEPT ![u] = "none"]
    /\ audit' = {row \in audit : Config(row.of) # u}
    /\ delivery' = [d \in Delivery |->
                     IF Config(d) = u THEN [delivery[d] EXCEPT !.orphan = TRUE] ELSE delivery[d]]
    /\ UNCHANGED <<request, process, key, inbox, published, faults>>

----------------------------------------------------------------------------
(* The dispatcher of an instance.                                          *)

\* A full channel drops the event for this subscriber.
Publish(e) ==
    /\ e \notin published
    /\ published' = published \cup {e}
    /\ inbox' = [i \in Instances |->
                   IF process[i] = "up" /\ Len(inbox[i]) < Buffer THEN Append(inbox[i], e) ELSE inbox[i]]
    /\ UNCHANGED <<configs, request, process, key, delivery, audit, faults>>

\* A config whose secret does not open is left out.
Secrets(i) == [u \in {v \in Active(configs) : configs[v] = key[i]} |-> "secret"]

WebhookConfigs(i, e) == IF e \in Subscribed THEN Secrets(i) ELSE <<>>

Dispatch(i) ==
    /\ process[i] = "up" /\ inbox[i] # <<>>
    /\ LET e == Head(inbox[i])
           found == WebhookConfigs(i, e)
       IN  delivery' = [d \in Delivery |->
                IF Inst(d) = i /\ d[2] = e /\ Config(d) \in DOMAIN found
                THEN [NotStarted EXCEPT !.pc = "send", !.signed = found[Config(d)] # ""]
                ELSE delivery[d]]
    /\ inbox' = [inbox EXCEPT ![i] = Tail(@)]
    /\ UNCHANGED <<configs, request, process, key, published, audit, faults>>

LookupFails(i) ==
    /\ process[i] = "up" /\ inbox[i] # <<>>
    /\ Fault
    /\ inbox' = [inbox EXCEPT ![i] = Tail(@)]
    /\ UNCHANGED <<configs, request, process, key, published, delivery, audit>>

----------------------------------------------------------------------------
(* One delivery: deliver and sendJSONWithSecretResult.                     *)

Retryable(status) == status \in {"5xx", "none"}

AfterAttempt(r, status) ==
    IF Retryable(status) /\ r.tries < MaxAttempts THEN "wait" ELSE "log"

\* What the attempt may meet: an answer, or none at once or after the time allowed.
Attempts(d) ==
    LET left == Budget - delivery[d].elapsed
        limit == IF left < ClientTimeout THEN left ELSE ClientTimeout
    IN  IF process[Inst(d)] = "stopping" THEN {<<"none", 0>>}
        ELSE {<<"none", 0>>, <<"none", limit>>}
             \cup {a \in {"2xx", "4xx", "5xx"} \X {0, ClientTimeout - 1} : a[2] < limit}

Send(d) ==
    /\ delivery[d].pc = "send"
    /\ \E a \in Attempts(d) :
          LET r == [delivery[d] EXCEPT !.tries = @ + 1, !.status = a[1], !.elapsed = @ + a[2]]
          IN  Set(d, [r EXCEPT !.pc = AfterAttempt(r, a[1])])
    /\ UNCHANGED <<configs, request, process, key, inbox, published, audit, faults>>

\* The pause before the next attempt, or the end of the context. At the same
\* moment either is taken.
Wait(d) ==
    /\ delivery[d].pc = "wait"
    /\ LET r == delivery[d]
           resumed == r.elapsed + Delays[r.tries]
       IN  \/ /\ process[Inst(d)] = "up" /\ resumed <= Budget
              /\ Set(d, [r EXCEPT !.pc = "send", !.elapsed = resumed])
           \/ /\ process[Inst(d)] = "stopping" \/ resumed >= Budget
              /\ Set(d, [r EXCEPT !.pc = "log"])
    /\ UNCHANGED <<configs, request, process, key, inbox, published, audit, faults>>

\* The context of the row outlives the shutdown; the row refers to the config.
Writable(d) == ~delivery[d].orphan

LogDelivery(d) ==
    /\ delivery[d].pc = "log"
    /\ audit' = IF Writable(d)
                THEN audit \cup {[of |-> d, tries |-> delivery[d].tries, status |-> delivery[d].status]}
                ELSE audit
    /\ Set(d, [delivery[d] EXCEPT !.pc = "done"])
    /\ UNCHANGED <<configs, request, process, key, inbox, published, faults>>

----------------------------------------------------------------------------
(* The process.                                                            *)

Shutdown(i) ==
    /\ process[i] = "up"
    /\ Fault
    /\ process' = [process EXCEPT ![i] = "stopping"]
    /\ delivery' = [d \in Delivery |->
          IF Inst(d) = i /\ delivery[d].pc \in {"send", "wait"}
          THEN [delivery[d] EXCEPT !.cut = TRUE] ELSE delivery[d]]
    /\ UNCHANGED <<configs, request, key, inbox, published, audit>>

\* Nobody waits for the deliveries under way.
Exit(i) ==
    /\ process[i] = "stopping"
    /\ process' = [process EXCEPT ![i] = "down"]
    /\ inbox' = [inbox EXCEPT ![i] = <<>>]
    /\ delivery' = [d \in Delivery |->
          IF Inst(d) = i /\ delivery[d].pc \notin {"none", "done"}
          THEN [delivery[d] EXCEPT !.pc = "gone"] ELSE delivery[d]]
    /\ UNCHANGED <<configs, request, key, published, audit, faults>>

Restart(i) ==
    /\ process[i] = "down"
    /\ process' = [process EXCEPT ![i] = "up"]
    /\ \E k \in Keys : key' = [key EXCEPT ![i] = k]
    /\ UNCHANGED <<configs, request, inbox, published, delivery, audit, faults>>

Next ==
    \/ \E r \in Requests : \/ \E u \in Url : Create(r, u)
                           \/ TakeSnapshot(r)
                           \/ \E i \in Instances : Insert(r, i)
    \/ \E u \in Url : DeleteConfig(u)
    \/ \E e \in Event : Publish(e)
    \/ \E d \in Delivery : Send(d) \/ Wait(d) \/ LogDelivery(d)
    \/ \E i \in Instances : Dispatch(i) \/ LookupFails(i) \/ Shutdown(i) \/ Exit(i) \/ Restart(i)

Spec == Init /\ [][Next]_vars

----------------------------------------------------------------------------
TypeOK ==
    /\ configs \in [Url -> Keys \cup {"none"}]
    /\ process \in [Instances -> {"up", "stopping", "down"}] /\ key \in [Instances -> Keys]
    /\ \A i \in Instances : Len(inbox[i]) <= Buffer
    /\ \A d \in Delivery : delivery[d].tries <= MaxAttempts /\ delivery[d].elapsed <= Budget
    /\ \A row \in audit : row.of \in Delivery /\ configs[Config(row.of)] # "none"

\* deliveryBudget: "a smaller timeout would expire during the documented backoff
\* delays and silently cancel the final retry". Only a stop of the process keeps a
\* delivery that meets transient errors from its third attempt.
BudgetCoversRetries == \A d \in Delivery :
    delivery[d].pc \in {"log", "done"} /\ Retryable(delivery[d].status) /\ ~delivery[d].cut
        => delivery[d].tries = MaxAttempts

\* "Audit write must survive shutdown": a delivery that came to its end has its one
\* row, with the last status and the number of attempts the receiver may have seen.
AuditedAsSent == \A d \in Delivery :
    LET rows == {row \in audit : row.of = d}
    IN  delivery[d].pc = "done" /\ ~delivery[d].orphan
        => rows = {[of |-> d, tries |-> delivery[d].tries, status |-> delivery[d].status]}

\* "Never deliver unsigned for a config that HAS a secret", whatever key the
\* instance that delivers was started with.
NeverUnsigned == \A d \in Delivery : delivery[d].tries > 0 => delivery[d].signed

\* CreateWebhookConfig: "two concurrent requests can never both slip past the cap".
ConfigsWithinCap == Cardinality(Active(configs)) <= Cap
==============================================================================
