------------------------------- MODULE Media -------------------------------
(* The media library (src/media): folders in a tree, and assets whose file,    *)
(* row and usage records are written one after another. A product's save       *)
(* replaces its usage records after it has answered, nobody awaits it.         *)
EXTENDS Naturals, FiniteSets

CONSTANTS
  Callers,      \* requests in flight
  Folders,      \* folder ids
  Keys,         \* storage keys that uploads of one file may be given
  Products,     \* entities that show assets
  Kinds,        \* the calls made: of "folder", "asset"
  MaxCalls      \* bound: calls

VARIABLES
  parent,       \* MediaFolder: folder -> its parent, Root, or Gone without a row
  rows,         \* keys with a MediaAsset row
  files,        \* keys with an object in the bucket
  usages,       \* MediaUsage rows: <<key, product>>
  shown,        \* product -> the key in its media, or NoKey
  call,         \* what each request is at
  calls,
  alone,        \* no other request was halfway as the caller's began, or wrote since
  crossed       \* a request wrote what another had made stale, or stopped halfway

vars == <<parent, rows, files, usages, shown, call, calls, alone, crossed>>
Assets == <<rows, files, usages, shown>>

Root == 0
Gone == 99
NoKey == "none"
Idle == [at |-> "idle"]
Rows(p) == {f \in Folders : p[f] # Gone}

TypeOK ==
  /\ parent \in [Folders -> Folders \cup {Root, Gone}]
  /\ rows \subseteq Keys /\ files \subseteq Keys /\ usages \subseteq rows \X Products
  /\ shown \in [Products -> Keys \cup {NoKey}]
  /\ calls \in 0 .. MaxCalls /\ alone \in [Callers -> BOOLEAN] /\ crossed \in BOOLEAN
  /\ \A c \in Callers : "at" \in DOMAIN call[c]

Init ==
  /\ parent = [f \in Folders |-> Gone]
  /\ rows = {} /\ files = {} /\ usages = {} /\ shown = [p \in Products |-> NoKey]
  /\ call = [c \in Callers |-> Idle] /\ calls = 0
  /\ alone = [c \in Callers |-> TRUE] /\ crossed = FALSE

-----------------------------------------------------------------------------
\* Stages at which a request has written, and has yet to write the rest.
Halfway == {"drop", "insert", "unlist", "clear", "track"}

\* The reading a request begins with.
Begin(c, kind, next) ==
  /\ kind \in Kinds /\ call[c] = Idle /\ calls < MaxCalls
  /\ calls' = calls + 1
  /\ call' = [call EXCEPT ![c] = next]
  /\ alone' = [alone EXCEPT ![c] = \A d \in Callers : call[d].at \notin Halfway]
  /\ UNCHANGED <<parent, Assets, crossed>>

\* A write, after which the request is at next.
Write(c, next) ==
  /\ call' = [call EXCEPT ![c] = next]
  /\ alone' = [d \in Callers |-> call'[d] = Idle \/ (d = c /\ alone[c])]
  /\ crossed' = (crossed \/ ~alone[c])
  /\ UNCHANGED calls

\* The request ends without a write.
End(c) ==
  /\ call' = [call EXCEPT ![c] = Idle]
  /\ alone' = [alone EXCEPT ![c] = TRUE]
  /\ UNCHANGED <<parent, Assets, calls, crossed>>

-----------------------------------------------------------------------------
CreateFolder(c) ==
  \/ \E f \in Folders, to \in Folders \cup {Root} :
       /\ parent[f] = Gone /\ to \in Rows(parent) \cup {Root}
       /\ Begin(c, "folder", [at |-> "create", folder |-> f, to |-> to])
  \/ /\ call[c].at = "create"
     /\ IF call[c].to \in Rows(parent) \cup {Root} /\ parent[call[c].folder] = Gone
        THEN parent' = [parent EXCEPT ![call[c].folder] = call[c].to] /\ Write(c, Idle) /\ UNCHANGED Assets
        ELSE End(c)

\* The folders on the way up from f, f included; a cycle ends the walk.
Path(p, f) ==
  LET up[n \in 0 .. Cardinality(Folders)] ==
        IF n = 0 THEN {f} ELSE up[n - 1] \cup {p[g] : g \in up[n - 1] \cap Rows(p)}
  IN  up[Cardinality(Folders)]

IntoItself(p, f, to) == f \in Path(p, to)

MoveFolder(c) ==
  \/ \E f \in Rows(parent), to \in Rows(parent) \cup {Root} :
       /\ ~IntoItself(parent, f, to) /\ parent[f] # to
       /\ Begin(c, "folder", [at |-> "move", folder |-> f, to |-> to])
  \/ /\ call[c].at = "move"
     /\ IF call[c].folder \in Rows(parent) /\ call[c].to \in Rows(parent) \cup {Root}
        THEN parent' = [parent EXCEPT ![call[c].folder] = call[c].to] /\ Write(c, Idle) /\ UNCHANGED Assets
        ELSE End(c)

\* Its subfolders go to its parent; whoever came since is put at the root.
DeleteFolder(c) ==
  \/ \E f \in Rows(parent) :
       Begin(c, "folder", [at |-> "lift", folder |-> f, to |-> parent[f]])
  \/ /\ call[c].at = "lift"
     /\ LET moved == {g \in Rows(parent) : parent[g] = call[c].folder} IN
        IF moved # {} /\ call[c].to \notin Rows(parent) \cup {Root}
        THEN End(c)
        ELSE /\ parent' = [g \in Folders |-> IF g \in moved THEN call[c].to ELSE parent[g]]
             /\ Write(c, [at |-> "drop", folder |-> call[c].folder]) /\ UNCHANGED Assets
  \/ /\ call[c].at = "drop"
     /\ IF call[c].folder \notin Rows(parent) THEN End(c)
        ELSE /\ parent' = [g \in Folders |-> IF g = call[c].folder THEN Gone
                                             ELSE IF parent[g] = call[c].folder THEN Root ELSE parent[g]]
             /\ Write(c, Idle) /\ UNCHANGED Assets

-----------------------------------------------------------------------------
(* persistBuffer: a file already stored is not stored again.                   *)
Upload(c) ==
  \/ \E k \in Keys \ files :
       rows = {} /\ Begin(c, "asset", [at |-> "store", key |-> k])
  \/ /\ call[c].at = "store"
     /\ files' = files \cup {call[c].key}
     /\ Write(c, [at |-> "insert", key |-> call[c].key]) /\ UNCHANGED <<parent, rows, usages, shown>>
  \/ /\ call[c].at = "insert"
     /\ rows' = rows \cup {call[c].key}
     /\ Write(c, Idle) /\ UNCHANGED <<parent, files, usages, shown>>

Referenced(k) == \E p \in Products : <<k, p>> \in usages

\* A mutant: the usage records outlive the row.
Orphaned(k) == usages
\* The row takes its usage records with it.
Cascaded(k) == {u \in usages : u[1] # k}

DeleteAsset(c) ==
  \/ \E k \in rows : ~Referenced(k) /\ Begin(c, "asset", [at |-> "erase", key |-> k])
  \/ /\ call[c].at = "erase"
     /\ files' = files \ {call[c].key}
     /\ Write(c, [at |-> "unlist", key |-> call[c].key]) /\ UNCHANGED <<parent, rows, usages, shown>>
  \/ /\ call[c].at = "unlist"
     /\ IF call[c].key \notin rows THEN End(c)
        ELSE /\ rows' = rows \ {call[c].key}
             /\ usages' = Cascaded(call[c].key)
             /\ Write(c, Idle) /\ UNCHANGED <<parent, files, shown>>

\* ProductsService.update, then syncProductMediaUsage.
SaveProduct(c) ==
  \/ \E p \in Products, k \in rows \cup {NoKey} :
       Begin(c, "asset", [at |-> "save", product |-> p, key |-> k])
  \/ /\ call[c].at = "save"
     /\ shown' = [shown EXCEPT ![call[c].product] = call[c].key]
     /\ Write(c, [call[c] EXCEPT !.at = "clear"]) /\ UNCHANGED <<parent, rows, files, usages>>
  \/ /\ call[c].at = "clear"
     /\ usages' = {u \in usages : u[2] # call[c].product}
     /\ Write(c, [call[c] EXCEPT !.at = "track"]) /\ UNCHANGED <<parent, rows, files, shown>>
  \/ /\ call[c].at = "track"
     /\ IF call[c].key \notin rows THEN End(c)
        ELSE /\ usages' = usages \cup {<<call[c].key, call[c].product>>}
             /\ Write(c, Idle) /\ UNCHANGED <<parent, rows, files, shown>>

\* The bucket or the database fails, or the process stops, between two writes.
Stop(c) ==
  /\ call[c] # Idle
  /\ call' = [call EXCEPT ![c] = Idle] /\ alone' = [alone EXCEPT ![c] = TRUE]
  /\ crossed' = (crossed \/ call[c].at \in Halfway \ {"drop"})
  /\ UNCHANGED <<parent, Assets, calls>>

Next ==
  \E c \in Callers :
    \/ CreateFolder(c) \/ MoveFolder(c) \/ DeleteFolder(c)
    \/ Upload(c) \/ DeleteAsset(c) \/ SaveProduct(c) \/ Stop(c)

Spec == Init /\ [][Next]_vars

-----------------------------------------------------------------------------
(* Every folder is found from the root.                                        *)
TreeWhole == \A f \in Rows(parent) : Root \in Path(parent, f)

(* A picture a product shows, once its save is through, is still in the        *)
(* library and in the bucket.                                                  *)
PicturesKept ==
  \A p \in Products :
    \/ shown[p] \in (rows \cap files) \cup {NoKey}
    \/ \E c \in Callers : call[c].at \in {"clear", "track"} /\ call[c].product = p

(* As long as no request writes on a reading another one made stale, and none  *)
(* stops between two writes of an asset, no sequence of uploads, saves, moves  *)
(* and deletions loses a folder or a picture in use.                           *)
LibraryWhole == crossed \/ (TreeWhole /\ PicturesKept)
=============================================================================
