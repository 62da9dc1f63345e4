----------------------------- MODULE MCWebhooks -----------------------------
EXTENDS Webhooks
Row(on, types, where) == [active |-> on, events |-> types, clusters |-> where, resources |-> {"pods"}]
MCRows == {Row(TRUE, {}, {}), Row(TRUE, {"ADDED"}, {"east"}), Row(FALSE, {}, {"east"})}
MCKinds == {[type |-> t, cluster |-> "east", resource |-> "pods"] : t \in {"ADDED", "DELETED"}}
=============================================================================
