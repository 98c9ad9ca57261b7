------------------------------ MODULE MetaConf ------------------------------
(***************************************************************************)
(* The source configuration endpoints of internal/server/rest.go:          *)
(*   /metadata/sources/{name}/confKeys/{confKey}        sourceConfKeyHandler *)
(*   /metadata/sources/{name}/confKeys/{confKey}/field                     *)
(*                                              sourceConfKeyFieldsHandler *)
(* over the metadata store (internal/meta, not under src/).                *)
(*                                                                         *)
(*   conf[k]  whether configuration key k of the source exists, and its   *)
(*            fields                                                       *)
(*   resp     the last response: its status, the handler, the method and   *)
(*            the key and fields it was asked for                          *)
(*                                                                         *)
(* A request body is the set of fields it sets or removes, and whether    *)
(* the store can decode it.  The source name and the language only select *)
(* which file is edited and are left out: one source is modelled.         *)
(***************************************************************************)
EXTENDS Integers, FiniteSets

CONSTANTS
    Keys,         \* configuration keys of the source
    Fields,       \* configuration fields
    MaxRequests   \* requests served in one behaviour

VARIABLES conf, resp, served

mvars == <<conf, resp, served>>

\* A key's state: whether it exists, and its fields.  A body: whether the
\* store can decode it, and the fields it names.
Absent == [present |-> FALSE, fields |-> {}]
Holding(fs) == [present |-> TRUE, fields |-> fs]
Bodies == [valid : BOOLEAN, fields : SUBSET Fields]

Response(st, h, m, k, b) == [status |-> st, handler |-> h, method |-> m, key |-> k, body |-> b]

Init ==
    /\ conf = [k \in Keys |-> Absent]
    /\ resp = Response(200, "none", "none", CHOOSE k \in Keys : TRUE, [valid |-> TRUE, fields |-> {}])
    /\ served = 0

(***************************************************************************)
(* Metadata store operations (internal/meta, not under src/): each returns *)
(* the new configuration and whether it failed.                            *)
(***************************************************************************)
Outcome(c, failed) == [conf |-> c, failed |-> failed]

DelSourceConfKey(k) ==
    IF ~conf[k].present THEN Outcome(conf, TRUE)
    ELSE Outcome([conf EXCEPT ![k] = Absent], FALSE)

AddSourceConfKey(k, b) ==
    IF ~b.valid THEN Outcome(conf, TRUE)
    ELSE Outcome([conf EXCEPT ![k] = Holding(b.fields)], FALSE)

DelSourceConfKeyField(k, b) ==
    IF ~conf[k].present \/ ~b.valid THEN Outcome(conf, TRUE)
    ELSE Outcome([conf EXCEPT ![k].fields = @ \ b.fields], FALSE)

AddSourceConfKeyField(k, b) ==
    IF ~conf[k].present \/ ~b.valid THEN Outcome(conf, TRUE)
    ELSE Outcome([conf EXCEPT ![k].fields = @ \cup b.fields], FALSE)

(***************************************************************************)
(* The handlers.  A handler that neither fails nor has a result (ret is    *)
(* always nil) writes nothing, which net/http sends as an empty 200; a     *)
(* failure goes through handleError, a 400 for a store error.              *)
(***************************************************************************)
Answer(out, h, m, k, b) ==
    /\ conf' = out.conf
    /\ resp' = Response(IF out.failed THEN 400 ELSE 200, h, m, k, b)

\* sourceConfKeyHandler.  In the POST case `v, err := ioutil.ReadAll`
\* declares a new err in the case's scope, so AddSourceConfKey's error is
\* assigned to that one, and the err tested after the switch stays nil.
sourceConfKeyHandler(m, k, b, readFails) ==
    CASE m = "DELETE" -> Answer(DelSourceConfKey(k), "key", m, k, b)
      [] m = "POST" /\ readFails -> Answer(Outcome(conf, TRUE), "key", m, k, b)
      [] m = "POST" -> Answer([AddSourceConfKey(k, b) EXCEPT !.failed = FALSE],
                              "key", m, k, b)

\* Mutant: the fields handler with the same shadowed err in its POST case.
sourceConfKeyFieldsHandlerShadowed(m, k, b, readFails) ==
    CASE readFails -> Answer(Outcome(conf, TRUE), "field", m, k, b)
      [] m = "DELETE" -> Answer(DelSourceConfKeyField(k, b), "field", m, k, b)
      [] m = "POST" -> Answer([AddSourceConfKeyField(k, b) EXCEPT !.failed = FALSE],
                              "field", m, k, b)

\* sourceConfKeyFieldsHandler: the body is read before the switch, and the
\* store's error is assigned to the function's own err.
sourceConfKeyFieldsHandler(m, k, b, readFails) ==
    CASE readFails -> Answer(Outcome(conf, TRUE), "field", m, k, b)
      [] m = "DELETE" -> Answer(DelSourceConfKeyField(k, b), "field", m, k, b)
      [] m = "POST" -> Answer(AddSourceConfKeyField(k, b), "field", m, k, b)

Request ==
    /\ served < MaxRequests
    /\ served' = served + 1
    /\ \E m \in {"DELETE", "POST"}, k \in Keys, b \in Bodies, readFails \in BOOLEAN :
         \/ sourceConfKeyHandler(m, k, b, readFails)
         \/ sourceConfKeyFieldsHandler(m, k, b, readFails)

Next == Request

Spec == Init /\ [][Next]_mvars

-----------------------------------------------------------------------------
\* A 200 from the confKey endpoint means the store did what was asked:
\* after DELETE the key is gone, after POST it holds the posted fields.
KeyAnswerTruthful ==
    resp.handler = "key" /\ resp.status = 200 =>
        /\ resp.method = "DELETE" => ~conf[resp.key].present
        /\ resp.method = "POST" => conf[resp.key] = Holding(resp.body.fields)

\* A 200 from the field endpoint means the key exists and the change is in
\* it: posted fields are present, deleted fields are gone.
FieldAnswerTruthful ==
    resp.handler = "field" /\ resp.status = 200 =>
        /\ conf[resp.key].present
        /\ resp.method = "POST" => resp.body.fields \subseteq conf[resp.key].fields
        /\ resp.method = "DELETE" => resp.body.fields \cap conf[resp.key].fields = {}
=============================================================================
