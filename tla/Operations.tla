------------------------------ MODULE Operations ------------------------------
(***************************************************************************)
(* The operations that make one request and keep nothing: the calls on the *)
(* client, on the handles of a peer and of a session and on a scope of     *)
(* conclusions, in the async SDK and in the blocking facade.  A call is    *)
(* built one setter at a time, is checked, may first have to create the    *)
(* workspace, and is then sent once (what happens to a request under way   *)
(* is the matter of HttpRequest).                                          *)
(*                                                                         *)
(* Every operation is an operator from the arguments of the call, a        *)
(* function from the names of those that were set, to the request or to    *)
(* Refusal.  A text is a class: empty, blank (white space only), text, max *)
(* (as long as the operation allows) or long (one character more).  A      *)
(* distance is counted in hundredths.                                      *)
(***************************************************************************)
EXTENDS Routes, FiniteSets, Functions

CONSTANTS
  Workspace,   \* the id the client was made with
  Peer,        \* the id of the peer handle and of the observer of a scope
  Session,     \* the id of the session handle
  Values,      \* the values tried for each argument
  MaxSet       \* bound: how many arguments of a call are set

\* The handles hold ids that the client or the server has accepted.
ASSUME HandleAssumption ==
  \A id \in {Workspace, Peer, Session} :
    /\ id \in Seq(Letters)
    /\ id # <<>>

\* What is put into a path is a text, a page has a number that is not negative, a flag
\* is a Boolean and peers come in a list.
ASSUME ValuesAssumption ==
  \A k \in DOMAIN Values : \A v \in Values[k] :
    /\ k \in Parameters => v \in Seq(Chars)
    /\ k = "page" => v \in Nat
    /\ k \in {"reverse", "stream"} => v \in BOOLEAN
    /\ k = "peers" => DOMAIN v = 1 .. Len(v)

VARIABLES op, facade, args, pc, ensured, sent, answer
vars == <<op, facade, args, pc, ensured, sent, answer>>

NoKeys == [k \in {} |-> k]
Given(a, keys) == Restrict(a, keys \cap DOMAIN a)
Or(a, k, default) == IF k \in DOMAIN a THEN a[k] ELSE default

Refusal == [refused |-> TRUE]
Request(method, route, ids, query, body) ==
  IF Checked(Templates[route], ids)
    THEN [refused |-> FALSE, method |-> method, url |-> Fill(Templates[route], ids),
          query |-> query, body |-> body]
    ELSE Refusal
When(ok, request) == IF ok THEN request ELSE Refusal

\* A body is an object, a function from the names of its members to their values.  One
\* that has no members with fixed names (a list, a map, or a value the caller hands in)
\* is under a name of its own.
Bare(value) == [itself |-> value]

OfWorkspace == [workspace_id |-> Workspace]
OfPeer(p) == [workspace_id |-> Workspace, peer_id |-> p]
OfSession == [workspace_id |-> Workspace, session_id |-> Session]

-----------------------------------------------------------------------------
(* Checks shared by the operations. *)
InRange(a, k, range) == k \in DOMAIN a => a[k] \in range

SearchParams == {"search_query", "search_top_k", "search_max_distance",
                 "include_most_frequent", "max_conclusions"}

(* Mutant: zero results are let through. *)
validate_search_params_from_zero(a) ==
  /\ InRange(a, "search_top_k", 0 .. 100)
  /\ InRange(a, "search_max_distance", 0 .. 100)
  /\ InRange(a, "max_conclusions", 0 .. 100)

validate_search_params(a) ==
  /\ InRange(a, "search_top_k", 1 .. 100)
  /\ InRange(a, "search_max_distance", 0 .. 100)
  /\ InRange(a, "max_conclusions", 1 .. 100)

validate_dialectic_query(q) == q # "long" /\ q \notin {"empty", "blank"}

validate_pagination(a) == InRange(a, "page", Nat \ {0}) /\ InRange(a, "size", 1 .. 100)

\* reverse goes out only when it is set to true.
PageQuery(a) ==
  [page |-> Or(a, "page", 1), size |-> Or(a, "size", 50)]
    ++ (IF Or(a, "reverse", FALSE) THEN [reverse |-> TRUE] ELSE NoKeys)

paginate_post(route, ids, a) ==
  When(validate_pagination(a),
       Request("POST", route, ids, PageQuery(a), Given(a, {"filters"})))

search_with_options(route, ids, a) ==
  When(a["query"] # "empty",
       Request("POST", route, ids, NoKeys,
               [limit |-> Or(a, "limit", 10)] ++ Given(a, {"query", "filters"})))

-----------------------------------------------------------------------------
(* The client. *)
Honcho_update(a) ==
  Request("PUT", "workspace", OfWorkspace, NoKeys, Given(a, {"metadata", "configuration"}))

Honcho_delete_workspace(a) ==
  Request("DELETE", "workspace", [workspace_id |-> a["workspace_id"]], NoKeys, NoKeys)

Honcho_peer(a) ==
  Request("POST", "peers", OfWorkspace, NoKeys, Given(a, {"id", "metadata", "configuration"}))

\* A map is collected from the list of peers: of two with the same id the last stays.
LastOfEach(specs) ==
  [p \in {s.id : s \in Range(specs)} |->
     LET last == CHOOSE i \in DOMAIN specs :
                   specs[i].id = p /\ \A j \in DOMAIN specs : specs[j].id = p => j <= i
     IN specs[last].config]

Honcho_session(a) ==
  Request("POST", "sessions", OfWorkspace, NoKeys,
          (IF "peers" \in DOMAIN a THEN [peers |-> LastOfEach(a["peers"])] ELSE NoKeys)
            ++ Given(a, {"id", "metadata", "configuration"}))

Honcho_search(a) ==
  Request("POST", "workspace_search", OfWorkspace, NoKeys,
          [limit |-> Or(a, "limit", 10)] ++ Given(a, {"query", "filters"}))

Honcho_queue_status(a) ==
  Request("GET", "workspace_queue_status", OfWorkspace,
          Given(a, {"observer_id", "sender_id", "session_id"}), NoKeys)

Honcho_schedule_dream(a) ==
  Request("POST", "workspace_schedule_dream", OfWorkspace, NoKeys,
          [dream_type |-> "omni", observer |-> a["observer"],
           observed |-> Or(a, "observed", a["observer"])] ++ Given(a, {"session_id"}))

Honcho_peers_with_filters(a) == paginate_post("peers_list", OfWorkspace, a)

Honcho_sessions_with_filters(a) == paginate_post("sessions_list", OfWorkspace, a)

Honcho_workspaces(a) == paginate_post("workspaces_list", NoKeys, a)

-----------------------------------------------------------------------------
(* A peer. *)
\* What serde skips: a reasoning level and a stream flag that are the default.
DialecticOptions(a) ==
  Given(a, {"query", "session_id", "target"}
             \cup (IF Or(a, "reasoning_level", "low") = "low" THEN {} ELSE {"reasoning_level"})
             \cup (IF Or(a, "stream", FALSE) THEN {"stream"} ELSE {}))

Peer_chat(a) ==
  When(validate_dialectic_query(a["query"]),
       Request("POST", "peer_chat", OfPeer(Peer), NoKeys, DialecticOptions(a)))

Peer_chat_stream(a) ==
  When(validate_dialectic_query(a["query"]),
       Request("POST", "peer_chat", OfPeer(Peer), NoKeys, [stream |-> TRUE] ++ DialecticOptions(a)))

Peer_representation(a) ==
  When(validate_search_params(a),
       Request("POST", "peer_representation", OfPeer(Peer), NoKeys,
               Given(a, SearchParams \cup {"session_id", "target"})))

Peer_context(a) ==
  When(validate_search_params(a),
       Request("GET", "peer_context", OfPeer(Peer),
               Given(a, SearchParams \cup {"target", "summary", "limit_to_session"}), NoKeys))

Peer_context_with_options(a) == Peer_context(Given(a, SearchParams \cup {"target"}))

Peer_sessions(a) == paginate_post("peer_sessions_list", OfPeer(Peer), a)

Peer_search(a) == search_with_options("peer_search", OfPeer(Peer), a)

Peer_get_card(a) ==
  Request("GET", "peer_card", OfPeer(Peer), Given(a, {"target"}), NoKeys)

Peer_set_card(a) ==
  Request("PUT", "peer_card", OfPeer(Peer), Given(a, {"target"}), Given(a, {"peer_card"}))

MessageOf(a) ==
  [peer_id |-> Peer] ++ Given(a, {"content", "metadata", "configuration", "created_at"})

\* A message is built by its peer and handed to add_messages of a session.
Peer_message(a) ==
  When(a["content"] \notin {"empty", "blank", "long"},
       Request("POST", "messages", OfSession, NoKeys, [messages |-> <<MessageOf(a)>>]))

-----------------------------------------------------------------------------
(* A session. *)
normalize_peers(specs) == [p \in {s.id : s \in Range(specs)} |->
                             (CHOOSE s \in Range(specs) : s.id = p).config]
Repeats(specs) == \E i, j \in DOMAIN specs : i # j /\ specs[i].id = specs[j].id

Session_add_peers(a) ==
  When(~Repeats(a["peers"]),
       Request("POST", "session_peers", OfSession, NoKeys, Bare(normalize_peers(a["peers"]))))

Session_set_peers(a) ==
  When(~Repeats(a["peers"]),
       Request("PUT", "session_peers", OfSession, NoKeys, Bare(normalize_peers(a["peers"]))))

(* Mutant: the list of ids is wrapped in an object. *)
Session_remove_peers_wrapped(a) ==
  Request("DELETE", "session_peers", OfSession, NoKeys, Given(a, {"ids"}))

Session_remove_peers(a) ==
  Request("DELETE", "session_peers", OfSession, NoKeys, Bare(a["ids"]))

Session_get_peer_configuration(a) ==
  Request("GET", "session_peer_config", OfSession ++ Given(a, {"peer_id"}), NoKeys, NoKeys)

Session_set_peer_configuration(a) ==
  Request("PUT", "session_peer_config", OfSession ++ Given(a, {"peer_id"}), NoKeys,
          Bare(a["configuration"]))

\* A file that cannot be named, read, opened or described is found out before
\* the request is made.
Unusable == {"noName", "brokenStream", "missing", "badType"}
Session_upload_file(a) ==
  When("peer_id" \in DOMAIN a /\ a["file"] \notin Unusable,
       Request("POST", "messages_upload", OfSession, NoKeys,
               Given(a, {"file", "peer_id", "metadata", "configuration", "created_at"})))

Session_delete(a) == Request("DELETE", "session", OfSession, NoKeys, NoKeys)

Session_clone(a) ==
  Request("POST", "session_clone", OfSession, Given(a, {"message_id"}), NoKeys)

Session_get_message(a) ==
  Request("GET", "message", OfSession ++ Given(a, {"message_id"}), NoKeys, NoKeys)

Session_update_message(a) ==
  Request("PUT", "message", OfSession ++ Given(a, {"message_id"}), NoKeys, Given(a, {"metadata"}))

\* SessionContextOptions::validate and to_query_params.
validate_context(a) ==
  /\ {"peer_perspective", "search_query"} \cap DOMAIN a # {} => "peer_target" \in DOMAIN a
  /\ validate_search_params(a)
  /\ "tokens" \in DOMAIN a => a["tokens"] # 0

(* Mutant: the flags are sent only when they are true. *)
to_query_params_if_true(a) ==
  Given(a, {k \in {"summary", "limit_to_session"} : Or(a, k, FALSE)}
             \cup SearchParams \cup {"tokens", "peer_target", "peer_perspective"})

to_query_params(a) ==
  [summary |-> Or(a, "summary", TRUE), limit_to_session |-> Or(a, "limit_to_session", FALSE)]
    ++ Given(a, SearchParams \cup {"tokens", "peer_target", "peer_perspective"})

Session_context(a) ==
  When(validate_context(a),
       Request("GET", "session_context", OfSession, to_query_params(a), NoKeys))

Session_summaries(a) == Request("GET", "session_summaries", OfSession, NoKeys, NoKeys)

Session_search(a) == search_with_options("session_search", OfSession, a)

Session_representation(a) ==
  When(validate_search_params(a),
       Request("POST", "peer_representation", OfPeer(a["peer_id"]), NoKeys,
               [session_id |-> Session] ++ Given(a, SearchParams \cup {"target"})))

Session_queue_status(a) ==
  Request("GET", "workspace_queue_status", OfWorkspace,
          [session_id |-> Session] ++ Given(a, {"observer_id", "sender_id"}), NoKeys)

-----------------------------------------------------------------------------
(* A scope of conclusions: what Peer concluded about itself (conclusions) or *)
(* about another (conclusions_of, the argument "of").                        *)
Observed(a) == Or(a, "of", Peer)

LIST_RESERVED_FILTERS ==
  {"observer", "observed", "observer_id", "observed_id", "session", "session_id"}
QUERY_RESERVED_FILTERS == {"observer", "observed", "observer_id", "observed_id"}
reject_reserved_filters(a, reserved) == DOMAIN Or(a, "filters", NoKeys) \cap reserved = {}

\* HashMap::insert of the scope's keys into the caller's filters.
Scoped(a) == [observer_id |-> Peer, observed_id |-> Observed(a)] ++ Or(a, "filters", NoKeys)

ConclusionOf(a) ==
  [observer_id |-> Peer, observed_id |-> Observed(a)] ++ Given(a, {"content", "session_id"})

Scope_create(a) ==
  Request("POST", "conclusions", OfWorkspace, NoKeys, [conclusions |-> <<ConclusionOf(a)>>])

(* Mutant: observer and observed are swapped. *)
Scope_representation_swapped(a) ==
  When(validate_search_params(a),
       Request("POST", "peer_representation", OfPeer(Observed(a)), NoKeys,
               [target |-> Peer] ++ Given(a, SearchParams)))

Scope_representation(a) ==
  When(validate_search_params(a),
       Request("POST", "peer_representation", OfPeer(Peer), NoKeys,
               [target |-> Observed(a)] ++ Given(a, SearchParams)))

Scope_list(a) ==
  When(reject_reserved_filters(a, LIST_RESERVED_FILTERS),
       paginate_post("conclusions_list", OfWorkspace,
                     [filters |-> Given(a, {"session_id"}) ++ Scoped(a)]
                       ++ Given(a, {"page", "size", "reverse"})))

Scope_query(a) ==
  When(/\ a["query"] \notin {"empty", "blank"}
       /\ InRange(a, "top_k", 1 .. 100)
       /\ InRange(a, "distance", 0 .. 100)
       /\ reject_reserved_filters(a, QUERY_RESERVED_FILTERS),
       Request("POST", "conclusions_query", OfWorkspace, NoKeys,
               [top_k |-> Or(a, "top_k", 10), filters |-> Scoped(a)]
                 ++ Given(a, {"query", "distance"})))

Scope_delete(a) ==
  Request("DELETE", "conclusion", OfWorkspace ++ Given(a, {"conclusion_id"}), NoKeys, NoKeys)

-----------------------------------------------------------------------------
(* What a caller can set: the setters of a builder and the parameters of a   *)
(* method; "must" of them are parameters of the call that starts it.         *)
ChatOptions == {"session_id", "target", "stream", "reasoning_level"}
ChatStreamSetters == {"session_id", "target", "reasoning_level"}
RepresentationSetters == SearchParams \cup {"session_id", "target"}
ContextSetters == SearchParams \cup {"target", "summary", "limit_to_session"}
PeerContextOptions == SearchParams \cup {"target"}
MessageSetters == {"metadata", "configuration", "created_at"}
UploadFileSetters == {"peer_id", "metadata", "configuration", "created_at"}
SessionRepresentationSetters == SearchParams \cup {"target"}
SessionContextSetters ==
  SearchParams \cup {"summary", "limit_to_session", "tokens", "peer_target", "peer_perspective"}
ScopeRepresentationSetters == SearchParams
ListSetters == {"page", "size", "session_id", "filters", "reverse"}
QuerySetters == {"top_k", "distance", "filters"}

Takes(must, may) == [must |-> must, may |-> must \cup may]
Paging == {"filters", "page", "size", "reverse"}

ClientCalls ==
  [ update                |-> Takes({}, {"metadata", "configuration"}),
    delete_workspace      |-> Takes({"workspace_id"}, {}),
    peer                  |-> Takes({"id"}, {"metadata", "configuration"}),
    session               |-> Takes({"id"}, {"metadata", "configuration", "peers"}),
    search                |-> Takes({"query"}, {"limit", "filters"}),
    queue_status          |-> Takes({}, {"observer_id", "sender_id", "session_id"}),
    schedule_dream        |-> Takes({"observer"}, {"observed", "session_id"}),
    peers_with_filters    |-> Takes({"filters"}, Paging),
    sessions_with_filters |-> Takes({"filters"}, Paging),
    workspaces            |-> Takes({}, {}) ]

PeerCalls ==
  [ chat                 |-> Takes({"query"}, ChatOptions),
    chat_stream          |-> Takes({"query"}, ChatStreamSetters),
    representation       |-> Takes({}, RepresentationSetters),
    context              |-> Takes({}, ContextSetters),
    context_with_options |-> Takes({}, PeerContextOptions),
    sessions             |-> Takes({}, Paging),
    peer_search          |-> Takes({"query"}, {"limit", "filters"}),
    get_card             |-> Takes({}, {"target"}),
    set_card             |-> Takes({"peer_card"}, {"target"}),
    message              |-> Takes({"content"}, MessageSetters) ]

SessionCalls ==
  [ add_peers              |-> Takes({"peers"}, {}),
    set_peers              |-> Takes({"peers"}, {}),
    remove_peers           |-> Takes({"ids"}, {}),
    get_peer_configuration |-> Takes({"peer_id"}, {}),
    set_peer_configuration |-> Takes({"peer_id", "configuration"}, {}),
    upload_file            |-> Takes({"file"}, UploadFileSetters),
    delete                 |-> Takes({}, {}),
    clone_session          |-> Takes({}, {"message_id"}),
    get_message            |-> Takes({"message_id"}, {}),
    update_message         |-> Takes({"message_id", "metadata"}, {}),
    session_context        |-> Takes({}, SessionContextSetters),
    summaries              |-> Takes({}, {}),
    session_search         |-> Takes({"query"}, {"limit", "filters"}),
    session_representation |-> Takes({"peer_id"}, SessionRepresentationSetters),
    session_queue_status   |-> Takes({}, {"observer_id", "sender_id"}) ]

ScopeCalls ==
  [ create               |-> Takes({"content"}, {"of", "session_id"}),
    scope_representation |-> Takes({}, ScopeRepresentationSetters \cup {"of"}),
    list                 |-> Takes({}, ListSetters \cup {"of"}),
    query                |-> Takes({"query"}, QuerySetters \cup {"of"}),
    delete_conclusion    |-> Takes({"conclusion_id"}, {"of"}) ]

AsyncCalls == ClientCalls ++ PeerCalls ++ SessionCalls ++ ScopeCalls

\* The facade wraps every builder and forwards each setter to it; its other
\* methods pass on their parameters as they are.
BlockingChatStream == {"query", "session_id", "target", "reasoning_level"}
BlockingRepresentation ==
  {"session_id", "target", "search_query", "search_top_k", "search_max_distance",
   "include_most_frequent", "max_conclusions"}

(* Mutant: a setter the async builder does not have. *)
BlockingContextWithSession ==
  {"target", "session_id", "summary", "limit_to_session", "search_query", "search_top_k",
   "search_max_distance", "include_most_frequent", "max_conclusions"}

BlockingContext ==
  {"target", "summary", "limit_to_session", "search_query", "search_top_k",
   "search_max_distance", "include_most_frequent", "max_conclusions"}
BlockingUploadFile == {"file", "peer_id", "metadata", "configuration", "created_at"}
BlockingSessionRepresentation ==
  {"peer_id", "target", "search_query", "search_top_k", "search_max_distance",
   "include_most_frequent", "max_conclusions"}
BlockingSessionContext ==
  {"summary", "limit_to_session", "tokens", "peer_target", "peer_perspective", "search_query",
   "search_top_k", "search_max_distance", "include_most_frequent", "max_conclusions"}
BlockingScopeRepresentation ==
  {"of", "search_query", "search_top_k", "search_max_distance", "include_most_frequent",
   "max_conclusions"}
BlockingList == {"of", "page", "size", "session_id", "reverse", "filters"}
BlockingQuery == {"of", "query", "top_k", "distance", "filters"}

BlockingBuilders ==
  [ chat_stream            |-> BlockingChatStream,
    representation         |-> BlockingRepresentation,
    context                |-> BlockingContext,
    upload_file            |-> BlockingUploadFile,
    session_representation |-> BlockingSessionRepresentation,
    session_context        |-> BlockingSessionContext,
    scope_representation   |-> BlockingScopeRepresentation,
    list                   |-> BlockingList,
    query                  |-> BlockingQuery ]
BlockingClientMethods ==
  {"update", "delete_workspace", "peer", "session", "search", "queue_status", "schedule_dream",
   "peers_with_filters", "sessions_with_filters", "workspaces"}
BlockingPeerMethods ==
  {"chat", "context_with_options", "sessions", "peer_search", "get_card", "set_card", "message"}
BlockingSessionMethods ==
  {"add_peers", "set_peers", "remove_peers", "get_peer_configuration", "set_peer_configuration",
   "delete", "clone_session", "get_message", "update_message", "summaries", "session_search",
   "session_queue_status"}
BlockingScopeMethods == {"create", "delete_conclusion"}
BlockingMethods ==
  BlockingClientMethods \cup BlockingPeerMethods \cup BlockingSessionMethods \cup BlockingScopeMethods

Offers(f, o) ==
  \/ f = "async"
  \/ o \in DOMAIN BlockingBuilders \cup BlockingMethods
Settable(f, o) ==
  IF f = "blocking" /\ o \in DOMAIN BlockingBuilders THEN BlockingBuilders[o] ELSE AsyncCalls[o].may
-----------------------------------------------------------------------------
RequestOf(o, a) ==
  CASE o = "update"                 -> Honcho_update(a)
    [] o = "delete_workspace"       -> Honcho_delete_workspace(a)
    [] o = "peer"                   -> Honcho_peer(a)
    [] o = "session"                -> Honcho_session(a)
    [] o = "search"                 -> Honcho_search(a)
    [] o = "queue_status"           -> Honcho_queue_status(a)
    [] o = "schedule_dream"         -> Honcho_schedule_dream(a)
    [] o = "peers_with_filters"     -> Honcho_peers_with_filters(a)
    [] o = "sessions_with_filters"  -> Honcho_sessions_with_filters(a)
    [] o = "workspaces"             -> Honcho_workspaces(a)
    [] o = "chat"                   -> Peer_chat(a)
    [] o = "chat_stream"            -> Peer_chat_stream(a)
    [] o = "representation"         -> Peer_representation(a)
    [] o = "context"                -> Peer_context(a)
    [] o = "context_with_options"   -> Peer_context_with_options(a)
    [] o = "sessions"               -> Peer_sessions(a)
    [] o = "peer_search"            -> Peer_search(a)
    [] o = "get_card"               -> Peer_get_card(a)
    [] o = "set_card"               -> Peer_set_card(a)
    [] o = "message"                -> Peer_message(a)
    [] o = "add_peers"              -> Session_add_peers(a)
    [] o = "set_peers"              -> Session_set_peers(a)
    [] o = "remove_peers"           -> Session_remove_peers(a)
    [] o = "get_peer_configuration" -> Session_get_peer_configuration(a)
    [] o = "set_peer_configuration" -> Session_set_peer_configuration(a)
    [] o = "upload_file"            -> Session_upload_file(a)
    [] o = "delete"                 -> Session_delete(a)
    [] o = "clone_session"          -> Session_clone(a)
    [] o = "get_message"            -> Session_get_message(a)
    [] o = "update_message"         -> Session_update_message(a)
    [] o = "session_context"        -> Session_context(a)
    [] o = "summaries"              -> Session_summaries(a)
    [] o = "session_search"         -> Session_search(a)
    [] o = "session_representation" -> Session_representation(a)
    [] o = "session_queue_status"   -> Session_queue_status(a)
    [] o = "create"                 -> Scope_create(a)
    [] o = "scope_representation"   -> Scope_representation(a)
    [] o = "list"                   -> Scope_list(a)
    [] o = "query"                  -> Scope_query(a)
    [] o = "delete_conclusion"      -> Scope_delete(a)

\* The calls that create the workspace first, and what they check before it.
Ensuring == DOMAIN ClientCalls \ {"update", "delete_workspace", "workspaces"}
Lists == {"peers_with_filters", "sessions_with_filters"}

(* Mutant: the facade's lists, too, leave page and size to paginate_post. *)
PassesBeforeEnsureIds(f, o, a) ==
  /\ o \in {"peer", "session"} => a["id"] # <<>>
  /\ o = "schedule_dream" => a["observer"] # <<>>

PassesBeforeEnsure(f, o, a) ==
  /\ o \in {"peer", "session"} => a["id"] # <<>>
  /\ o = "schedule_dream" => a["observer"] # <<>>
  /\ o \in Lists /\ f = "blocking" => validate_pagination(a)

EnsureRequest == Request("POST", "workspaces", NoKeys, NoKeys, [id |-> Workspace])

-----------------------------------------------------------------------------
Init ==
  /\ op = "none" /\ facade = "async" /\ args = NoKeys /\ pc = "done"
  /\ ensured = FALSE /\ sent = <<>> /\ answer = "none"

\* The methods of a handle need one, which an ensured client made.
Begin(f, o) ==
  /\ pc = "done"
  /\ Offers(f, o)
  /\ o \in DOMAIN ClientCalls \/ ensured
  /\ op' = o /\ facade' = f
  /\ pc' = "building" /\ args' = NoKeys /\ sent' = <<>> /\ answer' = "none"
  /\ UNCHANGED ensured

\* A setter that is called again replaces what it set before.
Set(k, v) ==
  /\ pc = "building"
  /\ k \in Settable(facade, op)
  /\ args' = [x \in {k} |-> v] ++ args
  /\ Cardinality(DOMAIN args') <= MaxSet
  /\ UNCHANGED <<op, facade, pc, ensured, sent, answer>>

Refuse ==
  /\ pc' = "done" /\ answer' = "refused"
  /\ UNCHANGED sent

Dispatch ==
  LET request == RequestOf(op, args) IN
    IF request.refused THEN Refuse
    ELSE /\ sent' = Append(sent, request)
         /\ pc' = "sending"
         /\ UNCHANGED answer

Send ==
  /\ pc = "building"
  /\ AsyncCalls[op].must \subseteq DOMAIN args
  /\ IF ~PassesBeforeEnsure(facade, op, args) THEN Refuse
     ELSE IF op \in Ensuring /\ ~ensured
       THEN /\ sent' = <<EnsureRequest>>
            /\ pc' = "ensuring"
            /\ UNCHANGED answer
       ELSE Dispatch
  /\ UNCHANGED <<op, facade, args, ensured>>

EnsureAnswered ==
  /\ pc = "ensuring"
  /\ \/ ensured' = TRUE /\ Dispatch
     \/ pc' = "done" /\ answer' = "failed" /\ UNCHANGED <<ensured, sent>>
  /\ UNCHANGED <<op, facade, args>>

\* Deleting the client's own workspace makes the next call create it again.
Answered ==
  /\ pc = "sending"
  /\ pc' = "done"
  /\ \/ /\ answer' = "ok"
        /\ ensured' = (ensured /\ ~(op = "delete_workspace" /\ args["workspace_id"] = Workspace))
     \/ answer' = "failed" /\ UNCHANGED ensured
  /\ UNCHANGED <<op, facade, args, sent>>

Next ==
  \/ \E f \in {"async", "blocking"}, o \in DOMAIN AsyncCalls : Begin(f, o)
  \/ \E k \in DOMAIN Values : \E v \in Values[k] : Set(k, v)
  \/ Send
  \/ EnsureAnswered
  \/ Answered

Spec == Init /\ [][Next]_vars

-----------------------------------------------------------------------------
(* The server, as tests/schemas/openapi.json describes it: what each endpoint *)
(* reads from the query and from the body, and what it takes when a key is    *)
(* not sent.                                                                  *)
Endpoint(method, path, query, body, defaults) ==
  [method |-> method, path |-> path, query |-> query, body |-> body, defaults |-> defaults]
Search(path) == Endpoint("POST", path, {}, {"query", "limit", "filters"}, [limit |-> 10])
List(path) == Endpoint("POST", path, {"page", "size", "reverse"}, {"filters"},
                       [page |-> 1, size |-> 50, reverse |-> FALSE])
Plain(method, path, query, body) == Endpoint(method, path, query, body, NoKeys)

WorkspaceApi ==
  [ list_workspaces |-> List(<<"list">>),
    create_workspace |-> Plain("POST", <<>>, {}, {"id", "metadata", "configuration"}),
    update_workspace |-> Plain("PUT", <<"workspace_id">>, {}, {"metadata", "configuration"}),
    delete_workspace |-> Plain("DELETE", <<"workspace_id">>, {}, {}),
    search_workspace |-> Search(<<"workspace_id", "search">>),
    queue_status |-> Plain("GET", <<"workspace_id", "queue", "status">>,
                           {"observer_id", "sender_id", "session_id"}, {}),
    schedule_dream |-> Plain("POST", <<"workspace_id", "schedule_dream">>, {},
                             {"observer", "observed", "dream_type", "session_id"}),
    create_conclusions |-> Plain("POST", <<"workspace_id", "conclusions">>, {},
                                 {"content", "observer_id", "observed_id", "session_id"}),
    list_conclusions |-> List(<<"workspace_id", "conclusions", "list">>),
    query_conclusions |-> Endpoint("POST", <<"workspace_id", "conclusions", "query">>, {},
                                   {"query", "top_k", "distance", "filters"}, [top_k |-> 10]),
    delete_conclusion |-> Plain("DELETE", <<"workspace_id", "conclusions", "conclusion_id">>,
                                {}, {}) ]

PeerApi ==
  [ create_peer |-> Plain("POST", <<"workspace_id", "peers">>,
                          {}, {"id", "metadata", "configuration"}),
    list_peers |-> List(<<"workspace_id", "peers", "list">>),
    peer_chat |-> Endpoint("POST", <<"workspace_id", "peers", "peer_id", "chat">>, {},
                           {"query", "session_id", "target", "stream", "reasoning_level"},
                           [stream |-> FALSE, reasoning_level |-> "low"]),
    peer_representation |-> Plain("POST", <<"workspace_id", "peers", "peer_id", "representation">>,
                                  {},
                                  SearchParams \cup {"session_id", "target"}),
    get_card |-> Plain("GET", <<"workspace_id", "peers", "peer_id", "card">>, {"target"}, {}),
    set_card |-> Plain("PUT", <<"workspace_id", "peers", "peer_id", "card">>,
                       {"target"}, {"peer_card"}),
    peer_context |-> Plain("GET", <<"workspace_id", "peers", "peer_id", "context">>,
                           SearchParams \cup {"target"}, {}),
    search_peer |-> Search(<<"workspace_id", "peers", "peer_id", "search">>),
    list_peer_sessions |-> List(<<"workspace_id", "peers", "peer_id", "sessions">>) ]

SessionApi ==
  [ create_session |-> Plain("POST", <<"workspace_id", "sessions">>,
                             {}, {"id", "metadata", "configuration", "peers"}),
    list_sessions |-> List(<<"workspace_id", "sessions", "list">>),
    delete_session |-> Plain("DELETE", <<"workspace_id", "sessions", "session_id">>, {}, {}),
    clone_session |-> Plain("POST", <<"workspace_id", "sessions", "session_id", "clone">>,
                            {"message_id"}, {}),
    session_context |-> Endpoint("GET", <<"workspace_id", "sessions", "session_id", "context">>,
                                 SearchParams \cup {"summary", "limit_to_session", "tokens",
                                                    "peer_target", "peer_perspective"}, {},
                                 [summary |-> TRUE, limit_to_session |-> FALSE]),
    summaries |-> Plain("GET", <<"workspace_id", "sessions", "session_id", "summaries">>, {}, {}),
    search_session |-> Search(<<"workspace_id", "sessions", "session_id", "search">>),
    add_peers |-> Plain("POST", <<"workspace_id", "sessions", "session_id", "peers">>,
                        {}, {"peers"}),
    set_peers |-> Plain("PUT", <<"workspace_id", "sessions", "session_id", "peers">>,
                        {}, {"peers"}),
    remove_peers |-> Plain("DELETE", <<"workspace_id", "sessions", "session_id", "peers">>,
                           {}, {"ids"}),
    get_peer_config |-> Plain("GET", <<"workspace_id", "sessions", "session_id", "peers",
                                       "peer_id", "config">>, {}, {}),
    set_peer_config |-> Plain("PUT", <<"workspace_id", "sessions", "session_id", "peers",
                                       "peer_id", "config">>, {}, {"configuration"}),
    create_messages |-> Plain("POST", <<"workspace_id", "sessions", "session_id", "messages">>, {},
                              {"peer_id", "content", "metadata", "configuration", "created_at"}),
    upload |-> Plain("POST", <<"workspace_id", "sessions", "session_id", "messages", "upload">>, {},
                     {"file", "peer_id", "metadata", "configuration", "created_at"}),
    get_message |-> Plain("GET", <<"workspace_id", "sessions", "session_id", "messages", "message_id">>,
                          {}, {}),
    update_message |-> Plain("PUT", <<"workspace_id", "sessions", "session_id", "messages",
                                      "message_id">>, {}, {"metadata"}) ]

Api == WorkspaceApi ++ PeerApi ++ SessionApi

\* The endpoints a request may be routed to, and what one then reads.
Serves(e, r) ==
  LET path == Api[e].path IN
    /\ Api[e].method = r.method
    /\ Len(path) = Len(r.url)
    /\ \A i \in DOMAIN path :
         Survives(r.url[i]) /\ (path[i] \in Parameters \/ Arrives(r.url[i]) = <<path[i]>>)
ServedBy(r) == {e \in DOMAIN Api : Serves(e, r)}

PathIds(e, r) ==
  LET path == Api[e].path IN
    [p \in Range(path) \cap Parameters |->
       Arrives(r.url[CHOOSE i \in DOMAIN path : path[i] = p])]

\* What the schema calls the body as a whole, where it does not name its members, and
\* the list in it whose items an endpoint reads.
BodyIs == [add_peers |-> "peers", set_peers |-> "peers", remove_peers |-> "ids",
           set_peer_config |-> "configuration"]
BodyLists == [create_messages |-> "messages", create_conclusions |-> "conclusions"]

Named(k, value) == [x \in {k} |-> value]

\* What the endpoint finds in a body: nothing if it is not of the form it expects.
Found(e, body) ==
  CASE e \in DOMAIN BodyIs ->
         IF "itself" \in DOMAIN body THEN Named(BodyIs[e], body["itself"]) ELSE NoKeys
    [] e \in DOMAIN BodyLists ->
         IF BodyLists[e] \in DOMAIN body THEN body[BodyLists[e]][1] ELSE NoKeys
    [] OTHER -> body

Reads(e, r) ==
  Given(r.query, Api[e].query) ++ Given(Found(e, r.body), Api[e].body)
    ++ PathIds(e, r) ++ Api[e].defaults

-----------------------------------------------------------------------------
(* What a caller means by a call. *)
MeantFor ==
  [ update |-> "update_workspace", delete_workspace |-> "delete_workspace", peer |-> "create_peer",
    session |-> "create_session", search |-> "search_workspace", queue_status |-> "queue_status",
    schedule_dream |-> "schedule_dream", peers_with_filters |-> "list_peers",
    sessions_with_filters |-> "list_sessions", workspaces |-> "list_workspaces",
    chat |-> "peer_chat", chat_stream |-> "peer_chat",
    representation |-> "peer_representation", context |-> "peer_context",
    context_with_options |-> "peer_context", sessions |-> "list_peer_sessions",
    peer_search |-> "search_peer", get_card |-> "get_card", set_card |-> "set_card",
    message |-> "create_messages", add_peers |-> "add_peers", set_peers |-> "set_peers",
    remove_peers |-> "remove_peers", get_peer_configuration |-> "get_peer_config",
    set_peer_configuration |-> "set_peer_config", upload_file |-> "upload",
    delete |-> "delete_session", clone_session |-> "clone_session", get_message |-> "get_message",
    update_message |-> "update_message", session_context |-> "session_context",
    summaries |-> "summaries", session_search |-> "search_session",
    session_representation |-> "peer_representation", session_queue_status |-> "queue_status",
    create |-> "create_conclusions", scope_representation |-> "peer_representation",
    list |-> "list_conclusions", query |-> "query_conclusions",
    delete_conclusion |-> "delete_conclusion" ]

\* The request of the call itself, while it is under way.
Under == pc = "sending"
Last == sent[Len(sent)]

\* Whose view of whom a call asks about, and within which session; <<>> is nobody
\* or no session.
Scope(observer, observed, session) == <<observer, observed, session>>
AsksAbout ==
  LET target == Or(args, "target", Peer)
      session == Or(args, "session_id", <<>>)
      of == Or(args, "of", Peer)
  IN CASE op \in {"chat", "chat_stream", "representation", "context", "context_with_options",
                  "get_card", "set_card"}  -> Scope(Peer, target, session)
       [] op = "session_representation"    ->
            Scope(args["peer_id"], Or(args, "target", args["peer_id"]), Session)
       [] op \in {"create", "list"}        -> Scope(Peer, of, session)
       [] op = "scope_representation"      -> Scope(Peer, of, <<>>)
       [] op = "query"                     ->
            Scope(Peer, of, Or(Or(args, "filters", NoKeys), "session_id", <<>>))
       [] op = "session_context"           ->
            Scope(Or(args, "peer_perspective", <<>>), Or(args, "peer_target", <<>>), Session)
       [] op = "schedule_dream"            ->
            Scope(args["observer"], Or(args, "observed", args["observer"]), session)

AnswersAbout(e, r) ==
  LET read == Reads(e, r)
      get(k) == Or(read, k, <<>>)
      within(f) == Or(f, "session_id", <<>>)
  IN CASE e \in {"peer_chat", "peer_representation", "peer_context", "get_card", "set_card"} ->
            Scope(get("peer_id"), Or(read, "target", get("peer_id")), get("session_id"))
       [] e = "create_conclusions" ->
            Scope(get("observer_id"), get("observed_id"), get("session_id"))
       [] e \in {"list_conclusions", "query_conclusions"} ->
            Scope(read["filters"]["observer_id"], read["filters"]["observed_id"],
                  within(read["filters"]))
       [] e = "session_context" ->
            Scope(get("peer_perspective"), get("peer_target"), get("session_id"))
       [] e = "schedule_dream" ->
            Scope(get("observer"), Or(read, "observed", get("observer")), get("session_id"))

HasScope == {"peer_chat", "peer_representation", "peer_context", "get_card", "set_card",
             "create_conclusions", "list_conclusions", "query_conclusions", "session_context",
             "schedule_dream"}

\* What the schema says of one key.
SchemaAllows(e, k, v) ==
  CASE k \in {"search_top_k", "max_conclusions", "top_k", "size", "limit"} -> v \in 1 .. 100
    [] k \in {"search_max_distance", "distance"}      -> v \in 0 .. 100
    [] k = "page"                                     -> v >= 1
    [] k = "tokens"                                   -> v <= 100000
    [] k = "query" /\ e = "peer_chat"                 -> v \notin {"empty", "long"}
    [] k = "content" /\ e = "create_messages"         -> v # "long"
    [] k = "content" /\ e = "create_conclusions"      -> v \notin {"empty", "long"}
    [] k = "id"                                       -> v # <<>> /\ Range(v) \subseteq Letters
    [] OTHER                                          -> TRUE

\* What the SDK leaves to the server to refuse.
LeftToServer(e, k) ==
  k \in {"limit", "tokens", "id"} \/ (e = "create_conclusions" /\ k = "content")

\* What the SDK refuses although the schema would not.
StricterThanSchema ==
  \/ op \in {"peer_search", "session_search"} /\ args["query"] = "empty"
  \/ op \in {"chat", "chat_stream", "query"} /\ args["query"] \in {"empty", "blank"}
  \/ op = "message" /\ args["content"] \in {"empty", "blank"}
  \/ op = "schedule_dream" /\ args["observer"] = <<>>
  \/ op \in {"add_peers", "set_peers"} /\ Repeats(args["peers"])
  \/ op = "upload_file" /\ ("peer_id" \notin DOMAIN args \/ args["file"] \in Unusable)
  \/ op = "list" /\ ~reject_reserved_filters(args, LIST_RESERVED_FILTERS)
  \/ op = "query" /\ ~reject_reserved_filters(args, QUERY_RESERVED_FILTERS)
  \/ /\ op = "session_context"
     /\ \/ /\ {"peer_perspective", "search_query"} \cap DOMAIN args # {}
           /\ "peer_target" \notin DOMAIN args
        \/ Or(args, "tokens", 1) = 0
  \/ \E k \in DOMAIN args \cap Parameters :
       Blank(args[k]) \/ Arrives(args[k]) \in {<<".">>, <<".", ".">>}

-----------------------------------------------------------------------------
\* Every variable keeps its type: a call never has an argument its operation does
\* not take, and at most the creation of the workspace precedes its request.
TypeOK ==
  /\ op \in DOMAIN AsyncCalls \cup {"none"}
  /\ facade \in {"async", "blocking"}
  /\ pc \in {"building", "ensuring", "sending", "done"}
  /\ pc # "done" => op # "none"
  /\ op # "none" => DOMAIN args \subseteq AsyncCalls[op].may
  /\ \A k \in DOMAIN args : k \in DOMAIN Values /\ args[k] \in Values[k]
  /\ ensured \in BOOLEAN
  /\ Len(sent) <= 2 /\ \A i \in DOMAIN sent : ~sent[i].refused
  /\ answer \in {"none", "ok", "failed", "refused"}

\* A call the SDK refuses has sent nothing, not even the creation of the workspace.
\* The two lists of the async client are the exception: Honcho::list ensures the
\* workspace before paginate_post looks at page and size (client.rs:725).
RefusedIsSilent ==
  answer = "refused" =>
    \/ sent = <<>>
    \/ op \in Lists /\ facade = "async" /\ sent = <<EnsureRequest>>

\* Whatever the ids are, a URL parser and the server take the request to the one
\* endpoint it is meant for, with the ids of the handle and of the call (routes.rs).
ReachesItsEndpoint ==
  Under =>
    /\ ServedBy(Last) = {MeantFor[op]}
    /\ LET ids == PathIds(MeantFor[op], Last) IN
         \A p \in DOMAIN ids :
           ids[p] = IF p \in DOMAIN args /\ p # "session_id" THEN args[p]
                    ELSE CASE p = "workspace_id" -> Workspace
                           [] p = "peer_id"      -> Peer
                           [] p = "session_id"   -> Session

\* Every argument a caller sets is read by the endpoint, with the value it had,
\* whether it was sent or left to the server's default.  Not read are summary and
\* limit_to_session of a peer's context (peer.rs:1241-1255), which the endpoint does
\* not know, and all but the last of the peers given twice to the creation of a
\* session (client.rs:526).
ArgumentsReach ==
  Under =>
    LET read == Reads(MeantFor[op], Last) IN
      \A k \in DOMAIN args \ {"of"} :
        \/ op = "context" /\ k \in {"summary", "limit_to_session"}
        \/ op = "session" /\ k = "peers" /\ Repeats(args[k])
        \/ op = "list" /\ k = "session_id"   \* read from the filters: ScopeKept
        \/ /\ k \in DOMAIN read
           /\ CASE k = "filters" -> \A i \in DOMAIN args[k] :
                                      i \in DOMAIN read[k] /\ read[k][i] = args[k][i]
                [] k = "peers"   -> \A i \in DOMAIN args[k] :
                                      read[k][args[k][i].id] = args[k][i].config
                [] OTHER         -> read[k] = args[k]

\* The server answers about the observer, the observed and the session the call is
\* about, by whichever of the entry points it is made, and no filter of the caller
\* gets a scope of conclusions to answer about another pair.
ScopeKept ==
  Under /\ MeantFor[op] \in HasScope => AnswersAbout(MeantFor[op], Last) = AsksAbout

\* The SDK sends nothing the schema forbids, but for what it leaves to the server,
\* and refuses nothing the schema allows, but for what it documents to refuse.
AgreesWithSchema ==
  /\ Under => \A k \in DOMAIN args :
                LeftToServer(MeantFor[op], k) \/ SchemaAllows(MeantFor[op], k, args[k])
  /\ answer = "refused" =>
       \/ StricterThanSchema
       \/ \E k \in DOMAIN args : ~SchemaAllows(MeantFor[op], k, args[k])
=============================================================================
