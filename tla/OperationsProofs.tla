--------------------------- MODULE OperationsProofs ---------------------------
(***************************************************************************)
(* For ids of any length over any letters, and for any values of the       *)
(* arguments: an id that validate_id accepts arrives at the server as it   *)
(* was given; a request is one of the server's endpoints, the one meant,   *)
(* about the objects meant; what the caller set arrives, under the key the *)
(* endpoint reads, and a scope is kept; nothing is sent that the schema    *)
(* forbids or refused that it allows, but for what is documented; and a    *)
(* refused call has sent nothing.                                          *)
(***************************************************************************)
EXTENDS Operations, SequenceTheorems, TLAPS

-----------------------------------------------------------------------------
(* Ids and paths.                                                          *)

LEMMA EncodeDecode ==
  ASSUME NEW c \in Chars
  PROVE  /\ DecodeToken(EncodeChar(c)) = c
         /\ EncodeChar(c) \notin {"/", "?", "%2e"}
         /\ EncodeChar(c) = "." => c = "."
BY LettersAssumption DEF Chars, EncodeChar, DecodeToken

\* Whatever the id is, if validate_id (routes.rs:38-58) lets it through, then
\* neither dot segments nor separators of a URL parser touch what encode makes of
\* it, and decoding gives the id back.
THEOREM EncodedIdsArrive ==
  ASSUME NEW id \in Seq(Chars), validate_id(id)
  PROVE  Survives(encode(id)) /\ Arrives(encode(id)) = id
<1>1. DOMAIN encode(id) = DOMAIN id /\ DOMAIN id = 1 .. Len(id) /\ Len(id) \in Nat
  BY DEF encode
<1>2. \A i \in DOMAIN id : id[i] \in Chars /\ encode(id)[i] = EncodeChar(id[i])
  BY DEF encode
<1>3. Len(encode(id)) = Len(id)
  BY <1>1 DEF encode
<1>4. ~DotSegment(encode(id))
  <2> SUFFICES ASSUME DotSegment(encode(id)) PROVE FALSE
    OBVIOUS
  <2>1. \A i \in DOMAIN id : id[i] = "."
    BY <1>1, <1>2, EncodeDecode DEF DotSegment
  <2>. QED BY <2>1, <1>3 DEF DotSegment, validate_id
<1>5. \A i \in DOMAIN encode(id) : encode(id)[i] \notin {"/", "?"}
  BY <1>1, <1>2, EncodeDecode
<1>6. Arrives(encode(id)) = id
  <2>1. Arrives(encode(id)) = [i \in DOMAIN id |-> DecodeToken(EncodeChar(id[i]))]
    BY <1>1, <1>2 DEF Arrives
  <2>2. \A i \in DOMAIN id : DecodeToken(EncodeChar(id[i])) = id[i]
    BY <1>2, EncodeDecode
  <2>3. id = [i \in DOMAIN id |-> id[i]]
    BY <1>1
  <2>. QED BY <2>1, <2>2, <2>3
<1>. QED BY <1>4, <1>5, <1>6 DEF Survives

Literals ==
  {"search", "queue", "status", "schedule_dream", "peers", "list", "chat", "representation",
   "card", "context", "sessions", "clone", "summaries", "config", "messages", "upload",
   "conclusions", "query"}

LEMMA TemplateSegments ==
  ASSUME NEW r \in DOMAIN Templates, NEW i \in DOMAIN Templates[r]
  PROVE  Templates[r][i] \in Parameters \cup Literals
<1> DEFINE Names(routes) == \A x \in DOMAIN routes : \A j \in DOMAIN routes[x] :
                              routes[x][j] \in Parameters \cup Literals
<1>1. Names(WorkspaceRoutes)
  BY DEF WorkspaceRoutes, Parameters, Literals
<1>2. Names(PeerRoutes)
  BY DEF PeerRoutes, Parameters, Literals
<1>3. Names(SessionRoutes)
  BY DEF SessionRoutes, Parameters, Literals
<1>4. Names(MessageRoutes)
  BY DEF MessageRoutes, Parameters, Literals
<1>5. Names(ConclusionRoutes)
  BY DEF ConclusionRoutes, Parameters, Literals
<1>6. \E routes \in {WorkspaceRoutes, PeerRoutes, SessionRoutes, MessageRoutes, ConclusionRoutes} :
        r \in DOMAIN routes /\ Templates[r] = routes[r]
  BY DEF Templates, ++
<1>. QED BY <1>1, <1>2, <1>3, <1>4, <1>5, <1>6

LEMMA LiteralArrives ==
  ASSUME NEW word \in Literals
  PROVE  Survives(<<word>>) /\ Arrives(<<word>>) = <<word>>
<1>1. word \notin {".", "/", "?", "%2e", "%2F", "%3F", "%20", "%252e", "%252F"}
  BY DEF Literals
<1>2. DecodeToken(word) = word
  BY <1>1 DEF DecodeToken
<1>. QED BY <1>1, <1>2 DEF Survives, DotSegment, Arrives

\* Whatever path the route! macro fills in, a URL parser and the server read every
\* segment of it as what the template says: a word as itself, an id as it was given.
THEOREM FilledPathsArrive ==
  ASSUME NEW r \in DOMAIN Templates,
         NEW ids, Checked(Templates[r], ids),
         NEW i \in DOMAIN Templates[r],
         Templates[r][i] \in Parameters => ids[Templates[r][i]] \in Seq(Chars)
  PROVE  /\ Survives(Fill(Templates[r], ids)[i])
         /\ Arrives(Fill(Templates[r], ids)[i]) =
              IF Templates[r][i] \in Parameters THEN ids[Templates[r][i]] ELSE <<Templates[r][i]>>
<1>1. CASE Templates[r][i] \in Parameters
  <2>1. validate_id(ids[Templates[r][i]]) /\ ids[Templates[r][i]] \in Seq(Chars)
    BY <1>1 DEF Checked
  <2>2. Fill(Templates[r], ids)[i] = encode(ids[Templates[r][i]])
    BY <1>1 DEF Fill
  <2>. QED BY <1>1, <2>1, <2>2, EncodedIdsArrive
<1>2. CASE Templates[r][i] \notin Parameters
  <2>1. Fill(Templates[r], ids)[i] = <<Templates[r][i]>>
    BY <1>2 DEF Fill
  <2>. QED BY <1>2, <2>1, TemplateSegments, LiteralArrives
<1>. QED BY <1>1, <1>2

-----------------------------------------------------------------------------
(* What the client's own routes are filled with is always accepted.         *)

LEMMA HandlesValid == \A id \in {Workspace, Peer, Session} : validate_id(id)
<1> SUFFICES ASSUME NEW id \in {Workspace, Peer, Session} PROVE validate_id(id)
  OBVIOUS
<1>1. /\ id \in Seq(Letters) /\ id # <<>>
      /\ Letters \cap {".", " ", "%2e"} = {}
  BY HandleAssumption, LettersAssumption
<1>2. Len(id) \in Nat \ {0} /\ DOMAIN id = 1 .. Len(id)
  BY <1>1, EmptySeq, LenProperties, Zenon
<1>3. \A i \in DOMAIN id : id[i] \in Letters
  BY <1>1, <1>2, ElementOfSeq, Zenon
<1>4. 1 \in DOMAIN id
  BY <1>2
<1>5. id[1] \notin {".", " ", "%2e"}
  BY <1>1, <1>3, <1>4
<1>6. ~Blank(id)
  BY <1>4, <1>5 DEF Blank
<1>7. ~DotSegment(id)
  BY <1>4, <1>5 DEF DotSegment
<1>. QED BY <1>6, <1>7 DEF validate_id

ClientRoutes ==
  {"peers", "sessions", "workspace_search", "workspace_queue_status",
   "workspace_schedule_dream", "peers_list", "sessions_list"}

LEMMA ClientTemplates ==
  \A r \in ClientRoutes : \A i \in DOMAIN Templates[r] :
     Templates[r][i] \in Parameters => Templates[r][i] = "workspace_id"
<1>1. /\ Templates["peers"] = <<"workspace_id", "peers">>
      /\ Templates["peers_list"] = <<"workspace_id", "peers", "list">>
      /\ Templates["sessions"] = <<"workspace_id", "sessions">>
      /\ Templates["sessions_list"] = <<"workspace_id", "sessions", "list">>
      /\ Templates["workspace_search"] = <<"workspace_id", "search">>
      /\ Templates["workspace_queue_status"] = <<"workspace_id", "queue", "status">>
      /\ Templates["workspace_schedule_dream"] = <<"workspace_id", "schedule_dream">>
  BY DEF Templates, WorkspaceRoutes, PeerRoutes, SessionRoutes, MessageRoutes, ConclusionRoutes,
     ++
<1>. QED BY <1>1 DEF Parameters, ClientRoutes

LEMMA ClientRequests ==
  ASSUME NEW r \in ClientRoutes, NEW method, NEW query, NEW body
  PROVE  Request(method, r, OfWorkspace, query, body).refused = FALSE
<1>1. Checked(Templates[r], OfWorkspace)
  BY ClientTemplates, HandlesValid DEF Checked, OfWorkspace
<1>. QED BY <1>1 DEF Request

LEMMA ClientLists ==
  ASSUME NEW r \in ClientRoutes, NEW a, validate_pagination(a)
  PROVE  paginate_post(r, OfWorkspace, a).refused = FALSE
BY ClientRequests DEF paginate_post, When

-----------------------------------------------------------------------------
(* Refused calls.                                                           *)

EnsuringCalls ==
  {"peer", "session", "search", "queue_status", "schedule_dream",
   "peers_with_filters", "sessions_with_filters"}

LEMMA EnsuringCallsAre == Ensuring = EnsuringCalls
BY DEF Ensuring, EnsuringCalls, ClientCalls

\* Once the workspace is ensured, only a list with a page or a size out of range
\* is still refused.
LEMMA RefusedAfterEnsure ==
  ASSUME NEW o \in Ensuring, NEW a, RequestOf(o, a).refused
  PROVE  o \in Lists /\ ~validate_pagination(a)
<1>1. CASE o = "peer"
  BY <1>1, ClientRequests DEF RequestOf, Honcho_peer, ClientRoutes
<1>2. CASE o = "session"
  BY <1>2, ClientRequests DEF RequestOf, Honcho_session, ClientRoutes
<1>3. CASE o = "search"
  BY <1>3, ClientRequests DEF RequestOf, Honcho_search, ClientRoutes
<1>4. CASE o = "queue_status"
  BY <1>4, ClientRequests DEF RequestOf, Honcho_queue_status, ClientRoutes
<1>5. CASE o = "schedule_dream"
  BY <1>5, ClientRequests DEF RequestOf, Honcho_schedule_dream, ClientRoutes
<1>6. CASE o = "peers_with_filters"
  BY <1>6, ClientLists DEF RequestOf, Honcho_peers_with_filters, ClientRoutes, Lists
<1>7. CASE o = "sessions_with_filters"
  BY <1>7, ClientLists DEF RequestOf, Honcho_sessions_with_filters, ClientRoutes, Lists
<1>. QED BY <1>1, <1>2, <1>3, <1>4, <1>5, <1>6, <1>7, EnsuringCallsAre DEF EnsuringCalls

\* RefusedIsSilent says nothing of a call under way: a call that is being built
\* has sent nothing, and one that waits for its workspace has only asked for it
\* and has passed the checks that come before.
SilentInv ==
  /\ facade \in {"async", "blocking"}
  /\ pc \in {"building", "ensuring", "sending"} => answer = "none"
  /\ pc = "building" => sent = <<>>
  /\ pc = "ensuring" => /\ sent = <<EnsureRequest>>
                        /\ op \in Ensuring
                        /\ PassesBeforeEnsure(facade, op, args)
  /\ RefusedIsSilent

LEMMA SilentInit == Init => SilentInv
BY DEF Init, SilentInv, RefusedIsSilent

LEMMA SilentNext == SilentInv /\ [Next]_vars => SilentInv'
<1> SUFFICES ASSUME SilentInv, [Next]_vars PROVE SilentInv'
  OBVIOUS
<1>1. ASSUME NEW f \in {"async", "blocking"}, NEW o \in DOMAIN AsyncCalls, Begin(f, o)
      PROVE  SilentInv'
  BY <1>1 DEF SilentInv, RefusedIsSilent, Begin
<1>2. ASSUME NEW k \in DOMAIN Values, NEW v \in Values[k], Set(k, v)
      PROVE  SilentInv'
  BY <1>2 DEF SilentInv, RefusedIsSilent, Set
<1>3. CASE Send
  <2>1. pc = "building" /\ sent = <<>> /\ answer = "none"
    BY <1>3 DEF Send, SilentInv
  <2>2. CASE Refuse
    BY <1>3, <2>1, <2>2 DEF Send, Refuse, SilentInv, RefusedIsSilent
  <2>3. CASE /\ PassesBeforeEnsure(facade, op, args) /\ op \in Ensuring
             /\ sent' = <<EnsureRequest>> /\ pc' = "ensuring" /\ UNCHANGED answer
    BY <1>3, <2>1, <2>3 DEF Send, SilentInv, RefusedIsSilent, PassesBeforeEnsure,
       validate_pagination, InRange
  <2>4. CASE pc' = "sending" /\ UNCHANGED answer
    BY <1>3, <2>1, <2>4 DEF Send, SilentInv, RefusedIsSilent
  <2>. QED BY <1>3, <2>2, <2>3, <2>4 DEF Send, Dispatch
<1>4. CASE EnsureAnswered
  <2>1. /\ pc = "ensuring" /\ answer = "none" /\ sent = <<EnsureRequest>>
        /\ op \in Ensuring /\ PassesBeforeEnsure(facade, op, args)
    BY <1>4 DEF EnsureAnswered, SilentInv
  <2>2. CASE pc' = "done" /\ answer' = "failed"
    BY <1>4, <2>2 DEF EnsureAnswered, SilentInv, RefusedIsSilent
  <2>3. CASE pc' = "sending" /\ UNCHANGED answer
    BY <1>4, <2>1, <2>3 DEF EnsureAnswered, SilentInv, RefusedIsSilent
  <2>4. CASE RequestOf(op, args).refused /\ Refuse
    <3>1. op \in Lists /\ ~validate_pagination(args)
      BY <2>1, <2>4, RefusedAfterEnsure
    <3>2. facade = "async"
      BY <2>1, <3>1 DEF PassesBeforeEnsure, SilentInv
    <3>. QED BY <1>4, <2>1, <2>4, <3>1, <3>2 DEF EnsureAnswered, Refuse, SilentInv,
             RefusedIsSilent
  <2>. QED BY <1>4, <2>2, <2>3, <2>4 DEF EnsureAnswered, Dispatch
<1>5. CASE Answered
  BY <1>5 DEF SilentInv, RefusedIsSilent, Answered
<1>6. CASE UNCHANGED vars
  BY <1>6 DEF SilentInv, RefusedIsSilent, PassesBeforeEnsure, validate_pagination, InRange, vars
<1>. QED BY <1>1, <1>2, <1>3, <1>4, <1>5, <1>6 DEF Next

\* A call the SDK refuses has sent nothing, not even the creation of the workspace,
\* but for the two lists of the async client (client.rs:725): for any ids, values
\* and number of arguments.
THEOREM RefusedIsSilentHolds == Spec => []RefusedIsSilent
<1>1. SilentInv => RefusedIsSilent
  BY DEF SilentInv
<1>. QED BY SilentInit, SilentNext, <1>1, PTL DEF Spec

-----------------------------------------------------------------------------
(* Types.                                                                   *)

\* What each of the wrapped builders of the async client takes.
LEMMA WrappedCalls ==
  /\ AsyncCalls["chat_stream"].may = {"query"} \cup ChatStreamSetters
  /\ AsyncCalls["representation"].may = RepresentationSetters
  /\ AsyncCalls["context"].may = ContextSetters
  /\ AsyncCalls["upload_file"].may = {"file"} \cup UploadFileSetters
  /\ AsyncCalls["session_representation"].may = {"peer_id"} \cup SessionRepresentationSetters
  /\ AsyncCalls["session_context"].may = SessionContextSetters
  /\ AsyncCalls["scope_representation"].may = ScopeRepresentationSetters \cup {"of"}
  /\ AsyncCalls["list"].may = ListSetters \cup {"of"}
  /\ AsyncCalls["query"].may = {"query"} \cup QuerySetters \cup {"of"}
<1>1. /\ AsyncCalls["chat_stream"] = PeerCalls["chat_stream"]
      /\ AsyncCalls["representation"] = PeerCalls["representation"]
      /\ AsyncCalls["context"] = PeerCalls["context"]
      /\ AsyncCalls["upload_file"] = SessionCalls["upload_file"]
      /\ AsyncCalls["session_representation"] = SessionCalls["session_representation"]
      /\ AsyncCalls["session_context"] = SessionCalls["session_context"]
      /\ AsyncCalls["scope_representation"] = ScopeCalls["scope_representation"]
      /\ AsyncCalls["list"] = ScopeCalls["list"]
      /\ AsyncCalls["query"] = ScopeCalls["query"]
  BY DEF AsyncCalls, ClientCalls, PeerCalls, SessionCalls, ScopeCalls, ++
<1>2. /\ PeerCalls["chat_stream"].may = {"query"} \cup ChatStreamSetters
      /\ PeerCalls["representation"].may = RepresentationSetters
      /\ PeerCalls["context"].may = ContextSetters
  BY DEF PeerCalls, Takes
<1>3. /\ SessionCalls["upload_file"].may = {"file"} \cup UploadFileSetters
      /\ SessionCalls["session_representation"].may = {"peer_id"} \cup SessionRepresentationSetters
      /\ SessionCalls["session_context"].may = SessionContextSetters
  BY DEF SessionCalls, Takes
<1>4. /\ ScopeCalls["scope_representation"].may = ScopeRepresentationSetters \cup {"of"}
      /\ ScopeCalls["list"].may = ListSetters \cup {"of"}
      /\ ScopeCalls["query"].may = {"query"} \cup QuerySetters \cup {"of"}
  BY DEF ScopeCalls, Takes
<1>. QED BY <1>1, <1>2, <1>3, <1>4

\* The facade has no setter that the builder it wraps does not have.
LEMMA SettersForwarded ==
  ASSUME NEW f, NEW o \in DOMAIN AsyncCalls
  PROVE  Settable(f, o) \subseteq AsyncCalls[o].may
<1>1. ASSUME NEW b \in DOMAIN BlockingBuilders
      PROVE  BlockingBuilders[b] \subseteq AsyncCalls[b].may
  <2>1. CASE b = "chat_stream"
    BY <2>1, WrappedCalls DEF BlockingBuilders, BlockingChatStream, ChatStreamSetters
  <2>2. CASE b = "representation"
    BY <2>2, WrappedCalls DEF BlockingBuilders, BlockingRepresentation, RepresentationSetters,
       SearchParams
  <2>3. CASE b = "context"
    BY <2>3, WrappedCalls DEF BlockingBuilders, BlockingContext, ContextSetters, SearchParams
  <2>4. CASE b = "upload_file"
    BY <2>4, WrappedCalls DEF BlockingBuilders, BlockingUploadFile, UploadFileSetters
  <2>5. CASE b = "session_representation"
    BY <2>5, WrappedCalls
    DEF BlockingBuilders, BlockingSessionRepresentation, SessionRepresentationSetters, SearchParams
  <2>6. CASE b = "session_context"
    BY <2>6, WrappedCalls
    DEF BlockingBuilders, BlockingSessionContext, SessionContextSetters, SearchParams
  <2>7. CASE b = "scope_representation"
    BY <2>7, WrappedCalls
    DEF BlockingBuilders, BlockingScopeRepresentation, ScopeRepresentationSetters, SearchParams
  <2>8. CASE b = "list"
    BY <2>8, WrappedCalls DEF BlockingBuilders, BlockingList, ListSetters
  <2>9. CASE b = "query"
    BY <2>9, WrappedCalls DEF BlockingBuilders, BlockingQuery, QuerySetters
  <2>. QED BY <2>1, <2>2, <2>3, <2>4, <2>5, <2>6, <2>7, <2>8, <2>9 DEF BlockingBuilders
<1>. QED BY <1>1 DEF Settable

LEMMA EnsureRequestSent == ~EnsureRequest.refused
<1>1. "workspaces" \in DOMAIN WorkspaceRoutes /\ WorkspaceRoutes["workspaces"] = <<>>
  BY DEF WorkspaceRoutes
<1>2. Templates["workspaces"] = <<>>
  BY <1>1 DEF Templates, ++
<1>3. Checked(Templates["workspaces"], NoKeys)
  BY <1>2 DEF Checked
<1>. QED BY <1>3 DEF EnsureRequest, Request

LEMMA NoKeysHasNone == DOMAIN NoKeys = {}
BY DEF NoKeys

LEMMA NoneIsNoCall == "none" \notin DOMAIN AsyncCalls
BY DEF AsyncCalls, ClientCalls, PeerCalls, SessionCalls, ScopeCalls, ++

\* What is sent: nothing, the request for the workspace, or after it one more.
MaySend(s) ==
  \/ s = <<>>
  \/ s = <<EnsureRequest>>
  \/ \E r : s = <<r>> /\ ~r.refused
  \/ \E r : s = <<EnsureRequest, r>> /\ ~r.refused

LEMMA SentTypes ==
  ASSUME NEW s, MaySend(s)
  PROVE  Len(s) <= 2 /\ \A i \in DOMAIN s : ~s[i].refused
<1>1. CASE s = <<>>
  BY <1>1
<1>2. CASE s = <<EnsureRequest>>
  BY <1>2, EnsureRequestSent
<1>3. ASSUME NEW r, s = <<r>>, ~r.refused
      PROVE  Len(s) <= 2 /\ \A i \in DOMAIN s : ~s[i].refused
  BY <1>3
<1>4. ASSUME NEW r, s = <<EnsureRequest, r>>, ~r.refused
      PROVE  Len(s) <= 2 /\ \A i \in DOMAIN s : ~s[i].refused
  BY <1>4, EnsureRequestSent
<1>. QED BY <1>1, <1>2, <1>3, <1>4 DEF MaySend

\* A call never has an argument its operation does not take, and is sent at most
\* once, after at most one creation of the workspace: for any ids and values.
THEOREM TypeCorrect == Spec => []TypeOK
<1> DEFINE Inv == TypeOK /\ MaySend(sent) /\ SilentInv
<1>1. Init => Inv
  <2> SUFFICES ASSUME Init PROVE TypeOK /\ MaySend(sent)
    BY SilentInit
  <2>1. MaySend(sent)
    BY DEF Init, MaySend
  <2>2. Len(sent) <= 2 /\ \A i \in DOMAIN sent : ~sent[i].refused
    BY <2>1, SentTypes
  <2>3. DOMAIN args = {}
    BY NoKeysHasNone DEF Init
  <2>. QED BY <2>1, <2>2, <2>3 DEF Init, TypeOK
<1>2. Inv /\ [Next]_vars => Inv'
  <2> SUFFICES ASSUME Inv, [Next]_vars PROVE TypeOK' /\ MaySend(sent')
    BY SilentNext
  <2>0. MaySend(sent') => Len(sent') <= 2 /\ \A i \in DOMAIN sent' : ~sent'[i].refused
    BY SentTypes
  <2>1. ASSUME NEW f \in {"async", "blocking"}, NEW o \in DOMAIN AsyncCalls, Begin(f, o)
        PROVE  TypeOK' /\ MaySend(sent')
    <3>1. MaySend(sent')
      BY <2>1 DEF Begin, MaySend
    <3>. QED BY <2>0, <2>1, <3>1, NoKeysHasNone, NoneIsNoCall DEF Begin, TypeOK
  <2>2. ASSUME NEW k \in DOMAIN Values, NEW v \in Values[k], Set(k, v)
        PROVE  TypeOK' /\ MaySend(sent')
    <3>1. MaySend(sent')
      BY <2>2 DEF Set, MaySend
    <3>2. op \in DOMAIN AsyncCalls /\ k \in AsyncCalls[op].may
      BY <2>2, SettersForwarded DEF Set, TypeOK
    <3>3. /\ DOMAIN args' = {k} \cup DOMAIN args
          /\ \A x \in DOMAIN args' : args'[x] = IF x = k THEN v ELSE args[x]
      BY <2>2 DEF Set, ++
    <3>. QED BY <2>0, <2>2, <3>1, <3>2, <3>3 DEF Set, TypeOK
  <2>3. CASE Send
    <3>1. MaySend(sent') /\ pc' \in {"done", "ensuring", "sending"} /\ answer' \in {"none", "refused"}
      <4>1. pc = "building" /\ sent = <<>> /\ answer = "none"
        BY <2>3 DEF Send, SilentInv
      <4>. QED BY <2>3, <4>1 DEF Send, Dispatch, Refuse, MaySend
    <3>2. UNCHANGED <<op, facade, args, ensured>> /\ op # "none"
      BY <2>3 DEF Send, TypeOK
    <3>. QED BY <2>0, <3>1, <3>2 DEF TypeOK
  <2>4. CASE EnsureAnswered
    <3>1. MaySend(sent') /\ pc' \in {"done", "sending"} /\ answer' \in {"none", "failed", "refused"}
      <4>1. pc = "ensuring" /\ sent = <<EnsureRequest>> /\ answer = "none"
        BY <2>4 DEF EnsureAnswered, SilentInv
      <4>. QED BY <2>4, <4>1 DEF EnsureAnswered, Dispatch, Refuse, MaySend
    <3>2. UNCHANGED <<op, facade, args>> /\ op # "none" /\ ensured' \in BOOLEAN
      BY <2>4 DEF EnsureAnswered, TypeOK
    <3>. QED BY <2>0, <3>1, <3>2 DEF TypeOK
  <2>5. CASE Answered
    BY <2>5 DEF Answered, TypeOK, MaySend
  <2>6. CASE UNCHANGED vars
    BY <2>6 DEF vars, TypeOK, MaySend
  <2>. QED BY <2>1, <2>2, <2>3, <2>4, <2>5, <2>6 DEF Next
<1>. QED BY <1>1, <1>2, PTL DEF Spec

-----------------------------------------------------------------------------
(* Endpoints.                                                               *)

LEMMA ApiParts ==
  /\ \A e \in DOMAIN WorkspaceApi : Api[e] = WorkspaceApi[e]
  /\ \A e \in DOMAIN PeerApi : Api[e] = PeerApi[e]
  /\ \A e \in DOMAIN SessionApi : Api[e] = SessionApi[e]
  /\ DOMAIN Api = DOMAIN WorkspaceApi \cup DOMAIN PeerApi \cup DOMAIN SessionApi
<1>1. DOMAIN WorkspaceApi =
        {"list_workspaces", "create_workspace", "update_workspace", "delete_workspace",
         "search_workspace", "queue_status", "schedule_dream", "create_conclusions",
         "list_conclusions", "query_conclusions", "delete_conclusion"}
  BY DEF WorkspaceApi
<1>2. DOMAIN PeerApi =
        {"create_peer", "list_peers", "peer_chat", "peer_representation", "get_card", "set_card",
         "peer_context", "search_peer", "list_peer_sessions"}
  BY DEF PeerApi
<1>3. DOMAIN SessionApi =
        {"create_session", "list_sessions", "delete_session", "clone_session", "session_context",
         "summaries", "search_session", "add_peers", "set_peers", "remove_peers",
         "get_peer_config", "set_peer_config", "create_messages", "upload", "get_message",
         "update_message"}
  BY DEF SessionApi
<1>4. /\ DOMAIN WorkspaceApi \cap DOMAIN PeerApi = {}
      /\ DOMAIN WorkspaceApi \cap DOMAIN SessionApi = {}
      /\ DOMAIN PeerApi \cap DOMAIN SessionApi = {}
  BY <1>1, <1>2, <1>3
<1>. QED BY <1>4 DEF Api, ++

LEMMA TemplateParts ==
  /\ \A r \in DOMAIN WorkspaceRoutes : Templates[r] = WorkspaceRoutes[r]
  /\ \A r \in DOMAIN PeerRoutes : Templates[r] = PeerRoutes[r]
  /\ \A r \in DOMAIN SessionRoutes : Templates[r] = SessionRoutes[r]
  /\ \A r \in DOMAIN MessageRoutes : Templates[r] = MessageRoutes[r]
  /\ \A r \in DOMAIN ConclusionRoutes : Templates[r] = ConclusionRoutes[r]
  /\ DOMAIN Templates = DOMAIN WorkspaceRoutes \cup DOMAIN PeerRoutes \cup DOMAIN SessionRoutes
                          \cup DOMAIN MessageRoutes \cup DOMAIN ConclusionRoutes
<1>1. DOMAIN WorkspaceRoutes =
        {"workspaces", "workspaces_list", "workspace", "workspace_search",
         "workspace_queue_status", "workspace_schedule_dream"}
  BY DEF WorkspaceRoutes
<1>2. DOMAIN PeerRoutes =
        {"peers", "peers_list", "peer_chat", "peer_representation", "peer_card", "peer_context",
         "peer_search", "peer_sessions_list"}
  BY DEF PeerRoutes
<1>3. DOMAIN SessionRoutes =
        {"sessions", "sessions_list", "session", "session_clone", "session_context",
         "session_summaries", "session_search", "session_peers", "session_peer_config"}
  BY DEF SessionRoutes
<1>4. DOMAIN MessageRoutes = {"messages", "message", "messages_upload"}
  BY DEF MessageRoutes
<1>5. DOMAIN ConclusionRoutes =
        {"conclusions", "conclusions_list", "conclusions_query", "conclusion"}
  BY DEF ConclusionRoutes
<1>6. /\ \A r \in DOMAIN PeerRoutes : r \notin DOMAIN WorkspaceRoutes
      /\ \A r \in DOMAIN SessionRoutes : r \notin DOMAIN WorkspaceRoutes \cup DOMAIN PeerRoutes
      /\ \A r \in DOMAIN MessageRoutes :
           r \notin DOMAIN WorkspaceRoutes \cup DOMAIN PeerRoutes \cup DOMAIN SessionRoutes
      /\ \A r \in DOMAIN ConclusionRoutes :
           r \notin DOMAIN WorkspaceRoutes \cup DOMAIN PeerRoutes \cup DOMAIN SessionRoutes
                      \cup DOMAIN MessageRoutes
  BY <1>1, <1>2, <1>3, <1>4, <1>5
<1>. QED BY <1>6 DEF Templates, ++

\* What tells the endpoints apart: the method, the number of segments, and the words
\* at the second and at the last one.
Row(method, route, length, second, last) ==
  [method |-> method, route |-> route, length |-> length, second |-> second, last |-> last]
Shape ==
  [ list_workspaces     |-> Row("POST", "workspaces_list", 1, "none", "list"),
    create_workspace    |-> Row("POST", "workspaces", 0, "none", "none"),
    update_workspace    |-> Row("PUT", "workspace", 1, "none", "none"),
    delete_workspace    |-> Row("DELETE", "workspace", 1, "none", "none"),
    search_workspace    |-> Row("POST", "workspace_search", 2, "search", "search"),
    queue_status        |-> Row("GET", "workspace_queue_status", 3, "queue", "status"),
    schedule_dream      |-> Row("POST", "workspace_schedule_dream", 2, "schedule_dream", "schedule_dream"),
    create_conclusions  |-> Row("POST", "conclusions", 2, "conclusions", "conclusions"),
    list_conclusions    |-> Row("POST", "conclusions_list", 3, "conclusions", "list"),
    query_conclusions   |-> Row("POST", "conclusions_query", 3, "conclusions", "query"),
    delete_conclusion   |-> Row("DELETE", "conclusion", 3, "conclusions", "none"),
    create_peer         |-> Row("POST", "peers", 2, "peers", "peers"),
    list_peers          |-> Row("POST", "peers_list", 3, "peers", "list"),
    peer_chat           |-> Row("POST", "peer_chat", 4, "peers", "chat"),
    peer_representation |-> Row("POST", "peer_representation", 4, "peers", "representation"),
    get_card            |-> Row("GET", "peer_card", 4, "peers", "card"),
    set_card            |-> Row("PUT", "peer_card", 4, "peers", "card"),
    peer_context        |-> Row("GET", "peer_context", 4, "peers", "context"),
    search_peer         |-> Row("POST", "peer_search", 4, "peers", "search"),
    list_peer_sessions  |-> Row("POST", "peer_sessions_list", 4, "peers", "sessions"),
    create_session      |-> Row("POST", "sessions", 2, "sessions", "sessions"),
    list_sessions       |-> Row("POST", "sessions_list", 3, "sessions", "list"),
    delete_session      |-> Row("DELETE", "session", 3, "sessions", "none"),
    clone_session       |-> Row("POST", "session_clone", 4, "sessions", "clone"),
    session_context     |-> Row("GET", "session_context", 4, "sessions", "context"),
    summaries           |-> Row("GET", "session_summaries", 4, "sessions", "summaries"),
    search_session      |-> Row("POST", "session_search", 4, "sessions", "search"),
    add_peers           |-> Row("POST", "session_peers", 4, "sessions", "peers"),
    set_peers           |-> Row("PUT", "session_peers", 4, "sessions", "peers"),
    remove_peers        |-> Row("DELETE", "session_peers", 4, "sessions", "peers"),
    get_peer_config     |-> Row("GET", "session_peer_config", 6, "sessions", "config"),
    set_peer_config     |-> Row("PUT", "session_peer_config", 6, "sessions", "config"),
    create_messages     |-> Row("POST", "messages", 4, "sessions", "messages"),
    upload              |-> Row("POST", "messages_upload", 5, "sessions", "upload"),
    get_message         |-> Row("GET", "message", 5, "sessions", "none"),
    update_message      |-> Row("PUT", "message", 5, "sessions", "none") ]

Word(w) == w # "none"

LEMMA ShapesApart ==
  ASSUME NEW e \in DOMAIN Shape, NEW f \in DOMAIN Shape, e # f,
         Shape[e].method = Shape[f].method, Shape[e].length = Shape[f].length
  PROVE  \/ /\ Word(Shape[e].second) /\ Word(Shape[f].second)
            /\ Shape[e].second # Shape[f].second
         \/ /\ Word(Shape[e].last) /\ Word(Shape[f].last)
            /\ Shape[e].last # Shape[f].last
BY DEF Shape, Row, Word

\* The table is right: every endpoint of the schema has the path of a route of the SDK.
HasRoute(api, e) ==
  /\ api[e].method = Shape[e].method
  /\ api[e].path = Templates[Shape[e].route]
HasLength(api, e) == Len(api[e].path) = Shape[e].length
HasSecond(api, e) ==
  Word(Shape[e].second) => 2 \in DOMAIN api[e].path /\ api[e].path[2] = Shape[e].second
HasLast(api, e) ==
  Word(Shape[e].last) =>
    Shape[e].length \in DOMAIN api[e].path /\ api[e].path[Shape[e].length] = Shape[e].last
HasShape(api, e) == HasLength(api, e) /\ HasSecond(api, e) /\ HasLast(api, e)

LEMMA WorkspaceShapes ==
  \A e \in DOMAIN WorkspaceApi : HasRoute(WorkspaceApi, e) /\ HasShape(WorkspaceApi, e)
<1>1. /\ HasRoute(WorkspaceApi, "list_workspaces")
      /\ HasRoute(WorkspaceApi, "create_workspace")
      /\ HasRoute(WorkspaceApi, "update_workspace")
      /\ HasRoute(WorkspaceApi, "delete_workspace")
      /\ HasRoute(WorkspaceApi, "search_workspace")
      /\ HasRoute(WorkspaceApi, "queue_status")
      /\ HasRoute(WorkspaceApi, "schedule_dream")
      /\ HasRoute(WorkspaceApi, "create_conclusions")
      /\ HasRoute(WorkspaceApi, "list_conclusions")
      /\ HasRoute(WorkspaceApi, "query_conclusions")
      /\ HasRoute(WorkspaceApi, "delete_conclusion")
  BY TemplateParts
  DEF WorkspaceApi, WorkspaceRoutes, ConclusionRoutes, Endpoint, Plain, List, Search, Shape, Row, HasRoute
<1>2. /\ HasLength(WorkspaceApi, "list_workspaces")
      /\ HasLength(WorkspaceApi, "create_workspace")
      /\ HasLength(WorkspaceApi, "update_workspace")
      /\ HasLength(WorkspaceApi, "delete_workspace")
      /\ HasLength(WorkspaceApi, "search_workspace")
      /\ HasLength(WorkspaceApi, "queue_status")
      /\ HasLength(WorkspaceApi, "schedule_dream")
      /\ HasLength(WorkspaceApi, "create_conclusions")
      /\ HasLength(WorkspaceApi, "list_conclusions")
      /\ HasLength(WorkspaceApi, "query_conclusions")
      /\ HasLength(WorkspaceApi, "delete_conclusion")
  BY DEF WorkspaceApi, Endpoint, Plain, List, Search, Shape, Row, HasLength
<1>3. \A e \in DOMAIN WorkspaceApi : HasSecond(WorkspaceApi, e)
  BY DEF WorkspaceApi, Endpoint, Plain, List, Search, Shape, Row, HasSecond, Word
<1>4. \A e \in DOMAIN WorkspaceApi : HasLast(WorkspaceApi, e)
  BY DEF WorkspaceApi, Endpoint, Plain, List, Search, Shape, Row, HasLast, Word
<1>5. \A e \in DOMAIN WorkspaceApi : HasRoute(WorkspaceApi, e)
  BY <1>1 DEF WorkspaceApi
<1>6. \A e \in DOMAIN WorkspaceApi : HasLength(WorkspaceApi, e)
  BY <1>2 DEF WorkspaceApi
<1>. QED BY <1>3, <1>4, <1>5, <1>6 DEF HasShape

LEMMA PeerShapes ==
  \A e \in DOMAIN PeerApi : HasRoute(PeerApi, e) /\ HasShape(PeerApi, e)
<1>1. /\ HasRoute(PeerApi, "create_peer")
      /\ HasRoute(PeerApi, "list_peers")
      /\ HasRoute(PeerApi, "peer_chat")
      /\ HasRoute(PeerApi, "peer_representation")
      /\ HasRoute(PeerApi, "get_card")
      /\ HasRoute(PeerApi, "set_card")
      /\ HasRoute(PeerApi, "peer_context")
      /\ HasRoute(PeerApi, "search_peer")
      /\ HasRoute(PeerApi, "list_peer_sessions")
  BY TemplateParts
  DEF PeerApi, PeerRoutes, Endpoint, Plain, List, Search, Shape, Row, HasRoute
<1>2. /\ HasLength(PeerApi, "create_peer")
      /\ HasLength(PeerApi, "list_peers")
      /\ HasLength(PeerApi, "peer_chat")
      /\ HasLength(PeerApi, "peer_representation")
      /\ HasLength(PeerApi, "get_card")
      /\ HasLength(PeerApi, "set_card")
      /\ HasLength(PeerApi, "peer_context")
      /\ HasLength(PeerApi, "search_peer")
      /\ HasLength(PeerApi, "list_peer_sessions")
  BY DEF PeerApi, Endpoint, Plain, List, Search, Shape, Row, HasLength
<1>3. \A e \in DOMAIN PeerApi : HasSecond(PeerApi, e)
  BY DEF PeerApi, Endpoint, Plain, List, Search, Shape, Row, HasSecond, Word
<1>4. \A e \in DOMAIN PeerApi : HasLast(PeerApi, e)
  BY DEF PeerApi, Endpoint, Plain, List, Search, Shape, Row, HasLast, Word
<1>5. \A e \in DOMAIN PeerApi : HasRoute(PeerApi, e)
  BY <1>1 DEF PeerApi
<1>6. \A e \in DOMAIN PeerApi : HasLength(PeerApi, e)
  BY <1>2 DEF PeerApi
<1>. QED BY <1>3, <1>4, <1>5, <1>6 DEF HasShape

LEMMA SessionShapes ==
  \A e \in DOMAIN SessionApi : HasRoute(SessionApi, e) /\ HasShape(SessionApi, e)
<1>1. /\ HasRoute(SessionApi, "create_session")
      /\ HasRoute(SessionApi, "list_sessions")
      /\ HasRoute(SessionApi, "delete_session")
      /\ HasRoute(SessionApi, "clone_session")
      /\ HasRoute(SessionApi, "session_context")
      /\ HasRoute(SessionApi, "summaries")
      /\ HasRoute(SessionApi, "search_session")
      /\ HasRoute(SessionApi, "add_peers")
      /\ HasRoute(SessionApi, "set_peers")
      /\ HasRoute(SessionApi, "remove_peers")
      /\ HasRoute(SessionApi, "get_peer_config")
      /\ HasRoute(SessionApi, "set_peer_config")
      /\ HasRoute(SessionApi, "create_messages")
      /\ HasRoute(SessionApi, "upload")
      /\ HasRoute(SessionApi, "get_message")
      /\ HasRoute(SessionApi, "update_message")
  BY TemplateParts
  DEF SessionApi, SessionRoutes, MessageRoutes, Endpoint, Plain, List, Search, Shape, Row, HasRoute
<1>2. /\ HasLength(SessionApi, "create_session")
      /\ HasLength(SessionApi, "list_sessions")
      /\ HasLength(SessionApi, "delete_session")
      /\ HasLength(SessionApi, "clone_session")
      /\ HasLength(SessionApi, "session_context")
      /\ HasLength(SessionApi, "summaries")
      /\ HasLength(SessionApi, "search_session")
      /\ HasLength(SessionApi, "add_peers")
      /\ HasLength(SessionApi, "set_peers")
      /\ HasLength(SessionApi, "remove_peers")
      /\ HasLength(SessionApi, "get_peer_config")
      /\ HasLength(SessionApi, "set_peer_config")
      /\ HasLength(SessionApi, "create_messages")
      /\ HasLength(SessionApi, "upload")
      /\ HasLength(SessionApi, "get_message")
      /\ HasLength(SessionApi, "update_message")
  BY DEF SessionApi, Endpoint, Plain, List, Search, Shape, Row, HasLength
<1>3. \A e \in DOMAIN SessionApi : HasSecond(SessionApi, e)
  BY DEF SessionApi, Endpoint, Plain, List, Search, Shape, Row, HasSecond, Word
<1>4. \A e \in DOMAIN SessionApi : HasLast(SessionApi, e)
  BY DEF SessionApi, Endpoint, Plain, List, Search, Shape, Row, HasLast, Word
<1>5. \A e \in DOMAIN SessionApi : HasRoute(SessionApi, e)
  BY <1>1 DEF SessionApi
<1>6. \A e \in DOMAIN SessionApi : HasLength(SessionApi, e)
  BY <1>2 DEF SessionApi
<1>. QED BY <1>3, <1>4, <1>5, <1>6 DEF HasShape



LEMMA ShapeTypes ==
  \A e \in DOMAIN Shape :
    /\ Shape[e].route \in DOMAIN Templates
    /\ Shape[e].second \notin Parameters /\ Shape[e].last \notin Parameters
<1>1. \A e \in DOMAIN Shape : Shape[e].second \notin Parameters /\ Shape[e].last \notin Parameters
  BY DEF Shape, Row, Parameters
<1>2. \A e \in DOMAIN Shape :
        \/ Shape[e].route \in DOMAIN WorkspaceRoutes \/ Shape[e].route \in DOMAIN ConclusionRoutes
        \/ Shape[e].route \in DOMAIN PeerRoutes
        \/ Shape[e].route \in DOMAIN SessionRoutes \/ Shape[e].route \in DOMAIN MessageRoutes
  BY DEF Shape, Row, WorkspaceRoutes, ConclusionRoutes, PeerRoutes, SessionRoutes, MessageRoutes
<1>. QED BY <1>1, <1>2, TemplateParts

LEMMA ApiShapes ==
  ASSUME NEW e \in DOMAIN Api
  PROVE  /\ e \in DOMAIN Shape
         /\ HasRoute(Api, e) /\ HasShape(Api, e)
<1>1. DOMAIN Shape = DOMAIN WorkspaceApi \cup DOMAIN PeerApi \cup DOMAIN SessionApi
  BY DEF Shape, WorkspaceApi, PeerApi, SessionApi
<1>2. CASE e \in DOMAIN WorkspaceApi
  BY <1>1, <1>2, ApiParts, WorkspaceShapes DEF HasRoute, HasShape, HasLength, HasSecond, HasLast
<1>3. CASE e \in DOMAIN PeerApi
  BY <1>1, <1>3, ApiParts, PeerShapes DEF HasRoute, HasShape, HasLength, HasSecond, HasLast
<1>4. CASE e \in DOMAIN SessionApi
  BY <1>1, <1>4, ApiParts, SessionShapes DEF HasRoute, HasShape, HasLength, HasSecond, HasLast
<1>. QED BY <1>2, <1>3, <1>4, ApiParts

\* No two endpoints of one method and one length take the same path: they differ in a
\* segment that is a word in both.
LEMMA EndpointsApart ==
  ASSUME NEW e \in DOMAIN Api, NEW f \in DOMAIN Api, e # f,
         Api[e].method = Api[f].method, Len(Api[e].path) = Len(Api[f].path)
  PROVE  \E i \in DOMAIN Api[e].path \cap DOMAIN Api[f].path :
           /\ Api[e].path[i] \notin Parameters /\ Api[f].path[i] \notin Parameters
           /\ Api[e].path[i] # Api[f].path[i]
<1> DEFINE p == Api[e].path
           q == Api[f].path
<1>1. /\ e \in DOMAIN Shape /\ f \in DOMAIN Shape
      /\ Shape[e].method = Shape[f].method /\ Shape[e].length = Shape[f].length
  BY ApiShapes DEF HasRoute, HasShape, HasLength, HasSecond, HasLast
<1>2. CASE /\ Word(Shape[e].second) /\ Word(Shape[f].second)
           /\ Shape[e].second # Shape[f].second
  <2>1. 2 \in DOMAIN p /\ p[2] = Shape[e].second /\ 2 \in DOMAIN q /\ q[2] = Shape[f].second
    BY <1>2, ApiShapes DEF HasShape, HasLength, HasSecond, HasLast
  <2>. QED BY <1>1, <1>2, <2>1, ShapeTypes
<1>3. CASE /\ Word(Shape[e].last) /\ Word(Shape[f].last)
           /\ Shape[e].last # Shape[f].last
  <2>1. /\ Shape[e].length \in DOMAIN p /\ p[Shape[e].length] = Shape[e].last
        /\ Shape[f].length \in DOMAIN q /\ q[Shape[f].length] = Shape[f].last
    BY <1>3, ApiShapes DEF HasShape, HasLength, HasSecond, HasLast
  <2>. QED BY <1>1, <1>3, <2>1, ShapeTypes
<1>. QED BY <1>1, <1>2, <1>3, ShapesApart

\* A request with the path of an endpoint is taken to that endpoint and to no other,
\* with the ids it was made from.
LEMMA TakenTo ==
  ASSUME NEW e \in DOMAIN Api, NEW ids, NEW r,
         r.method = Api[e].method, r.url = Fill(Api[e].path, ids), Checked(Api[e].path, ids),
         \A i \in DOMAIN Api[e].path :
           Api[e].path[i] \in Parameters => ids[Api[e].path[i]] \in Seq(Chars)
  PROVE  /\ ServedBy(r) = {e}
         /\ \A p \in DOMAIN PathIds(e, r) : PathIds(e, r)[p] = ids[p]
         /\ DOMAIN PathIds(e, r) = {Api[e].path[i] : i \in DOMAIN Api[e].path} \cap Parameters
<1> DEFINE path == Api[e].path
           route == Shape[e].route
<1>1. path = Templates[route] /\ route \in DOMAIN Templates
  BY ApiShapes, ShapeTypes DEF HasRoute
<1>2. ASSUME NEW i \in DOMAIN path
      PROVE  /\ Survives(r.url[i])
             /\ Arrives(r.url[i]) = IF path[i] \in Parameters THEN ids[path[i]] ELSE <<path[i]>>
  BY <1>1, FilledPathsArrive
<1>3. DOMAIN r.url = DOMAIN path /\ Len(r.url) = Len(path)
  BY DEF Fill
<1>4. Serves(e, r)
  BY <1>2, <1>3 DEF Serves
<1>5. ASSUME NEW f \in DOMAIN Api, Serves(f, r), f # e
      PROVE  FALSE
  <2>1. Api[f].method = Api[e].method /\ Len(Api[f].path) = Len(path)
    BY <1>3, <1>5 DEF Serves
  <2>2. PICK i \in DOMAIN path \cap DOMAIN Api[f].path :
               /\ path[i] \notin Parameters /\ Api[f].path[i] \notin Parameters
               /\ path[i] # Api[f].path[i]
    BY <1>5, <2>1, EndpointsApart
  <2>3. Arrives(r.url[i]) = <<Api[f].path[i]>> /\ Arrives(r.url[i]) = <<path[i]>>
    BY <1>2, <1>5, <2>2 DEF Serves
  <2>. QED BY <2>2, <2>3
<1>6. ServedBy(r) = {e}
  BY <1>4, <1>5 DEF ServedBy
<1>7. DOMAIN PathIds(e, r) = {path[i] : i \in DOMAIN path} \cap Parameters
  BY DEF PathIds, Range
<1>8. ASSUME NEW p \in DOMAIN PathIds(e, r)
      PROVE  PathIds(e, r)[p] = ids[p]
  <2> DEFINE i == CHOOSE i \in DOMAIN path : path[i] = p
  <2>1. i \in DOMAIN path /\ path[i] = p /\ p \in Parameters
    BY <1>7
  <2>2. PathIds(e, r)[p] = Arrives(r.url[i])
    BY <1>7 DEF PathIds, Range
  <2>. QED BY <1>2, <2>1, <2>2
<1>. QED BY <1>6, <1>7, <1>8

-----------------------------------------------------------------------------
(* Requests.                                                                *)

\* The request for a call, unless it is refused, has a method and the path of a route
\* filled with ids.
Sends(r, method, route, ids) ==
  \/ r.refused
  \/ /\ r.method = method
     /\ r.url = Fill(Templates[route], ids)
     /\ Checked(Templates[route], ids)

LEMMA Requested ==
  ASSUME NEW method, NEW route, NEW ids, NEW query, NEW body
  PROVE  Sends(Request(method, route, ids, query, body), method, route, ids)
<1>1. CASE Checked(Templates[route], ids)
  BY <1>1 DEF Sends, Request
<1>2. CASE ~Checked(Templates[route], ids)
  BY <1>2 DEF Sends, Request, Refusal
<1>. QED BY <1>1, <1>2

LEMMA Unless ==
  ASSUME NEW ok, NEW r, NEW method, NEW route, NEW ids, Sends(r, method, route, ids)
  PROVE  Sends(When(ok, r), method, route, ids)
<1>1. Sends(Refusal, method, route, ids)
  BY DEF Sends, Refusal
<1>. QED BY <1>1 DEF When

LEMMA Dispatches ==
  ASSUME NEW a
  PROVE  /\ RequestOf("update", a) = Honcho_update(a)
         /\ RequestOf("delete_workspace", a) = Honcho_delete_workspace(a)
         /\ RequestOf("peer", a) = Honcho_peer(a)
         /\ RequestOf("session", a) = Honcho_session(a)
         /\ RequestOf("search", a) = Honcho_search(a)
         /\ RequestOf("queue_status", a) = Honcho_queue_status(a)
         /\ RequestOf("schedule_dream", a) = Honcho_schedule_dream(a)
         /\ RequestOf("peers_with_filters", a) = Honcho_peers_with_filters(a)
         /\ RequestOf("sessions_with_filters", a) = Honcho_sessions_with_filters(a)
         /\ RequestOf("workspaces", a) = Honcho_workspaces(a)
         /\ RequestOf("chat", a) = Peer_chat(a)
         /\ RequestOf("chat_stream", a) = Peer_chat_stream(a)
         /\ RequestOf("representation", a) = Peer_representation(a)
         /\ RequestOf("context", a) = Peer_context(a)
         /\ RequestOf("context_with_options", a) = Peer_context_with_options(a)
         /\ RequestOf("sessions", a) = Peer_sessions(a)
         /\ RequestOf("peer_search", a) = Peer_search(a)
         /\ RequestOf("get_card", a) = Peer_get_card(a)
         /\ RequestOf("set_card", a) = Peer_set_card(a)
         /\ RequestOf("message", a) = Peer_message(a)
         /\ RequestOf("add_peers", a) = Session_add_peers(a)
         /\ RequestOf("set_peers", a) = Session_set_peers(a)
         /\ RequestOf("remove_peers", a) = Session_remove_peers(a)
         /\ RequestOf("get_peer_configuration", a) = Session_get_peer_configuration(a)
         /\ RequestOf("set_peer_configuration", a) = Session_set_peer_configuration(a)
         /\ RequestOf("upload_file", a) = Session_upload_file(a)
         /\ RequestOf("delete", a) = Session_delete(a)
         /\ RequestOf("clone_session", a) = Session_clone(a)
         /\ RequestOf("get_message", a) = Session_get_message(a)
         /\ RequestOf("update_message", a) = Session_update_message(a)
         /\ RequestOf("session_context", a) = Session_context(a)
         /\ RequestOf("summaries", a) = Session_summaries(a)
         /\ RequestOf("session_search", a) = Session_search(a)
         /\ RequestOf("session_representation", a) = Session_representation(a)
         /\ RequestOf("session_queue_status", a) = Session_queue_status(a)
         /\ RequestOf("create", a) = Scope_create(a)
         /\ RequestOf("scope_representation", a) = Scope_representation(a)
         /\ RequestOf("list", a) = Scope_list(a)
         /\ RequestOf("query", a) = Scope_query(a)
         /\ RequestOf("delete_conclusion", a) = Scope_delete(a)
BY DEF RequestOf

GoesTo(o, method, route) ==
  Shape[MeantFor[o]].method = method /\ Shape[MeantFor[o]].route = route

LEMMA Meant ==
  /\ GoesTo("update", "PUT", "workspace")
  /\ GoesTo("delete_workspace", "DELETE", "workspace")
  /\ GoesTo("peer", "POST", "peers")
  /\ GoesTo("session", "POST", "sessions")
  /\ GoesTo("search", "POST", "workspace_search")
  /\ GoesTo("queue_status", "GET", "workspace_queue_status")
  /\ GoesTo("schedule_dream", "POST", "workspace_schedule_dream")
  /\ GoesTo("peers_with_filters", "POST", "peers_list")
  /\ GoesTo("sessions_with_filters", "POST", "sessions_list")
  /\ GoesTo("workspaces", "POST", "workspaces_list")
  /\ GoesTo("chat", "POST", "peer_chat")
  /\ GoesTo("chat_stream", "POST", "peer_chat")
  /\ GoesTo("representation", "POST", "peer_representation")
  /\ GoesTo("context", "GET", "peer_context")
  /\ GoesTo("context_with_options", "GET", "peer_context")
  /\ GoesTo("sessions", "POST", "peer_sessions_list")
  /\ GoesTo("peer_search", "POST", "peer_search")
  /\ GoesTo("get_card", "GET", "peer_card")
  /\ GoesTo("set_card", "PUT", "peer_card")
  /\ GoesTo("message", "POST", "messages")
  /\ GoesTo("add_peers", "POST", "session_peers")
  /\ GoesTo("set_peers", "PUT", "session_peers")
  /\ GoesTo("remove_peers", "DELETE", "session_peers")
  /\ GoesTo("get_peer_configuration", "GET", "session_peer_config")
  /\ GoesTo("set_peer_configuration", "PUT", "session_peer_config")
  /\ GoesTo("upload_file", "POST", "messages_upload")
  /\ GoesTo("delete", "DELETE", "session")
  /\ GoesTo("clone_session", "POST", "session_clone")
  /\ GoesTo("get_message", "GET", "message")
  /\ GoesTo("update_message", "PUT", "message")
  /\ GoesTo("session_context", "GET", "session_context")
  /\ GoesTo("summaries", "GET", "session_summaries")
  /\ GoesTo("session_search", "POST", "session_search")
  /\ GoesTo("session_representation", "POST", "peer_representation")
  /\ GoesTo("session_queue_status", "GET", "workspace_queue_status")
  /\ GoesTo("create", "POST", "conclusions")
  /\ GoesTo("scope_representation", "POST", "peer_representation")
  /\ GoesTo("list", "POST", "conclusions_list")
  /\ GoesTo("query", "POST", "conclusions_query")
  /\ GoesTo("delete_conclusion", "DELETE", "conclusion")
<1>1. /\ GoesTo("update", "PUT", "workspace")
      /\ GoesTo("delete_workspace", "DELETE", "workspace")
      /\ GoesTo("peer", "POST", "peers")
      /\ GoesTo("session", "POST", "sessions")
      /\ GoesTo("search", "POST", "workspace_search")
  BY DEF GoesTo, Shape, Row, MeantFor
<1>2. /\ GoesTo("queue_status", "GET", "workspace_queue_status")
      /\ GoesTo("schedule_dream", "POST", "workspace_schedule_dream")
      /\ GoesTo("peers_with_filters", "POST", "peers_list")
      /\ GoesTo("sessions_with_filters", "POST", "sessions_list")
      /\ GoesTo("workspaces", "POST", "workspaces_list")
  BY DEF GoesTo, Shape, Row, MeantFor
<1>3. /\ GoesTo("chat", "POST", "peer_chat")
      /\ GoesTo("chat_stream", "POST", "peer_chat")
      /\ GoesTo("representation", "POST", "peer_representation")
      /\ GoesTo("context", "GET", "peer_context")
      /\ GoesTo("context_with_options", "GET", "peer_context")
  BY DEF GoesTo, Shape, Row, MeantFor
<1>4. /\ GoesTo("sessions", "POST", "peer_sessions_list")
      /\ GoesTo("peer_search", "POST", "peer_search")
      /\ GoesTo("get_card", "GET", "peer_card")
      /\ GoesTo("set_card", "PUT", "peer_card")
      /\ GoesTo("message", "POST", "messages")
  BY DEF GoesTo, Shape, Row, MeantFor
<1>5. /\ GoesTo("add_peers", "POST", "session_peers")
      /\ GoesTo("set_peers", "PUT", "session_peers")
      /\ GoesTo("remove_peers", "DELETE", "session_peers")
      /\ GoesTo("get_peer_configuration", "GET", "session_peer_config")
      /\ GoesTo("set_peer_configuration", "PUT", "session_peer_config")
  BY DEF GoesTo, Shape, Row, MeantFor
<1>6. /\ GoesTo("upload_file", "POST", "messages_upload")
      /\ GoesTo("delete", "DELETE", "session")
      /\ GoesTo("clone_session", "POST", "session_clone")
      /\ GoesTo("get_message", "GET", "message")
      /\ GoesTo("update_message", "PUT", "message")
  BY DEF GoesTo, Shape, Row, MeantFor
<1>7. /\ GoesTo("session_context", "GET", "session_context")
      /\ GoesTo("summaries", "GET", "session_summaries")
      /\ GoesTo("session_search", "POST", "session_search")
      /\ GoesTo("session_representation", "POST", "peer_representation")
      /\ GoesTo("session_queue_status", "GET", "workspace_queue_status")
  BY DEF GoesTo, Shape, Row, MeantFor
<1>8. /\ GoesTo("create", "POST", "conclusions")
      /\ GoesTo("scope_representation", "POST", "peer_representation")
      /\ GoesTo("list", "POST", "conclusions_list")
      /\ GoesTo("query", "POST", "conclusions_query")
      /\ GoesTo("delete_conclusion", "DELETE", "conclusion")
  BY DEF GoesTo, Shape, Row, MeantFor
<1>. QED BY <1>1, <1>2, <1>3, <1>4, <1>5, <1>6, <1>7, <1>8

\* The ids a call fills into its route: those of the handle, and of its arguments.
WorkspaceCalls ==
  {"update", "peer", "session", "search", "queue_status", "schedule_dream",
   "peers_with_filters", "sessions_with_filters", "session_queue_status", "create", "list",
   "query"}
PeerOnlyCalls ==
  {"chat", "chat_stream", "representation", "context", "context_with_options", "sessions",
   "peer_search", "get_card", "set_card", "scope_representation"}
SessionOnlyCalls ==
  {"message", "add_peers", "set_peers", "remove_peers", "upload_file", "delete",
   "clone_session", "session_context", "summaries", "session_search"}
IdsOf(o, a) ==
  CASE o \in WorkspaceCalls -> OfWorkspace
    [] o \in PeerOnlyCalls -> OfPeer(Peer)
    [] o \in SessionOnlyCalls -> OfSession
    [] o = "workspaces" -> NoKeys
    [] o = "delete_workspace" -> [workspace_id |-> a["workspace_id"]]
    [] o = "session_representation" -> OfPeer(a["peer_id"])
    [] o \in {"get_peer_configuration", "set_peer_configuration"} -> OfSession ++ Given(a, {"peer_id"})
    [] o \in {"get_message", "update_message"} -> OfSession ++ Given(a, {"message_id"})
    [] o = "delete_conclusion" -> OfWorkspace ++ Given(a, {"conclusion_id"})

LEMMA CallsSent ==
  ASSUME NEW o \in DOMAIN AsyncCalls, NEW a
  PROVE  Sends(RequestOf(o, a), Shape[MeantFor[o]].method, Shape[MeantFor[o]].route, IdsOf(o, a))
<1>1. Sends(Honcho_update(a), "PUT", "workspace", OfWorkspace)
  BY Requested, Unless, Zenon DEF Honcho_update
<1>2. Sends(Honcho_delete_workspace(a), "DELETE", "workspace", [workspace_id |-> a["workspace_id"]])
  BY Requested, Unless, Zenon DEF Honcho_delete_workspace
<1>3. Sends(Honcho_peer(a), "POST", "peers", OfWorkspace)
  BY Requested, Unless, Zenon DEF Honcho_peer
<1>4. Sends(Honcho_session(a), "POST", "sessions", OfWorkspace)
  BY Requested, Unless, Zenon DEF Honcho_session
<1>5. Sends(Honcho_search(a), "POST", "workspace_search", OfWorkspace)
  BY Requested, Unless, Zenon DEF Honcho_search
<1>6. Sends(Honcho_queue_status(a), "GET", "workspace_queue_status", OfWorkspace)
  BY Requested, Unless, Zenon DEF Honcho_queue_status
<1>7. Sends(Honcho_schedule_dream(a), "POST", "workspace_schedule_dream", OfWorkspace)
  BY Requested, Unless, Zenon DEF Honcho_schedule_dream
<1>8. Sends(Honcho_peers_with_filters(a), "POST", "peers_list", OfWorkspace)
  BY Requested, Unless, Zenon DEF Honcho_peers_with_filters, paginate_post
<1>9. Sends(Honcho_sessions_with_filters(a), "POST", "sessions_list", OfWorkspace)
  BY Requested, Unless, Zenon DEF Honcho_sessions_with_filters, paginate_post
<1>10. Sends(Honcho_workspaces(a), "POST", "workspaces_list", NoKeys)
  BY Requested, Unless, Zenon DEF Honcho_workspaces, paginate_post
<1>11. Sends(Peer_chat(a), "POST", "peer_chat", OfPeer(Peer))
  BY Requested, Unless, Zenon DEF Peer_chat
<1>12. Sends(Peer_chat_stream(a), "POST", "peer_chat", OfPeer(Peer))
  BY Requested, Unless, Zenon DEF Peer_chat_stream
<1>13. Sends(Peer_representation(a), "POST", "peer_representation", OfPeer(Peer))
  BY Requested, Unless, Zenon DEF Peer_representation
<1>14. Sends(Peer_context(a), "GET", "peer_context", OfPeer(Peer))
  BY Requested, Unless, Zenon DEF Peer_context
<1>15. Sends(Peer_context_with_options(a), "GET", "peer_context", OfPeer(Peer))
  BY Requested, Unless, Zenon DEF Peer_context_with_options, Peer_context
<1>16. Sends(Peer_sessions(a), "POST", "peer_sessions_list", OfPeer(Peer))
  BY Requested, Unless, Zenon DEF Peer_sessions, paginate_post
<1>17. Sends(Peer_search(a), "POST", "peer_search", OfPeer(Peer))
  BY Requested, Unless, Zenon DEF Peer_search, search_with_options
<1>18. Sends(Peer_get_card(a), "GET", "peer_card", OfPeer(Peer))
  BY Requested, Unless, Zenon DEF Peer_get_card
<1>19. Sends(Peer_set_card(a), "PUT", "peer_card", OfPeer(Peer))
  BY Requested, Unless, Zenon DEF Peer_set_card
<1>20. Sends(Peer_message(a), "POST", "messages", OfSession)
  BY Requested, Unless, Zenon DEF Peer_message
<1>21. Sends(Session_add_peers(a), "POST", "session_peers", OfSession)
  BY Requested, Unless, Zenon DEF Session_add_peers
<1>22. Sends(Session_set_peers(a), "PUT", "session_peers", OfSession)
  BY Requested, Unless, Zenon DEF Session_set_peers
<1>23. Sends(Session_remove_peers(a), "DELETE", "session_peers", OfSession)
  BY Requested, Unless, Zenon DEF Session_remove_peers
<1>24. Sends(Session_get_peer_configuration(a), "GET", "session_peer_config",
        OfSession ++ Given(a, {"peer_id"}))
  BY Requested, Unless, Zenon DEF Session_get_peer_configuration
<1>25. Sends(Session_set_peer_configuration(a), "PUT", "session_peer_config",
        OfSession ++ Given(a, {"peer_id"}))
  BY Requested, Unless, Zenon DEF Session_set_peer_configuration
<1>26. Sends(Session_upload_file(a), "POST", "messages_upload", OfSession)
  BY Requested, Unless, Zenon DEF Session_upload_file
<1>27. Sends(Session_delete(a), "DELETE", "session", OfSession)
  BY Requested, Unless, Zenon DEF Session_delete
<1>28. Sends(Session_clone(a), "POST", "session_clone", OfSession)
  BY Requested, Unless, Zenon DEF Session_clone
<1>29. Sends(Session_get_message(a), "GET", "message", OfSession ++ Given(a, {"message_id"}))
  BY Requested, Unless, Zenon DEF Session_get_message
<1>30. Sends(Session_update_message(a), "PUT", "message", OfSession ++ Given(a, {"message_id"}))
  BY Requested, Unless, Zenon DEF Session_update_message
<1>31. Sends(Session_context(a), "GET", "session_context", OfSession)
  BY Requested, Unless, Zenon DEF Session_context
<1>32. Sends(Session_summaries(a), "GET", "session_summaries", OfSession)
  BY Requested, Unless, Zenon DEF Session_summaries
<1>33. Sends(Session_search(a), "POST", "session_search", OfSession)
  BY Requested, Unless, Zenon DEF Session_search, search_with_options
<1>34. Sends(Session_representation(a), "POST", "peer_representation", OfPeer(a["peer_id"]))
  BY Requested, Unless, Zenon DEF Session_representation
<1>35. Sends(Session_queue_status(a), "GET", "workspace_queue_status", OfWorkspace)
  BY Requested, Unless, Zenon DEF Session_queue_status
<1>36. Sends(Scope_create(a), "POST", "conclusions", OfWorkspace)
  BY Requested, Unless, Zenon DEF Scope_create
<1>37. Sends(Scope_representation(a), "POST", "peer_representation", OfPeer(Peer))
  BY Requested, Unless, Zenon DEF Scope_representation
<1>38. Sends(Scope_list(a), "POST", "conclusions_list", OfWorkspace)
  BY Requested, Unless, Zenon DEF Scope_list, paginate_post
<1>39. Sends(Scope_query(a), "POST", "conclusions_query", OfWorkspace)
  BY Requested, Unless, Zenon DEF Scope_query
<1>40. Sends(Scope_delete(a), "DELETE", "conclusion", OfWorkspace ++ Given(a, {"conclusion_id"}))
  BY Requested, Unless, Zenon DEF Scope_delete
<1>41. CASE o \in WorkspaceCalls
  BY <1>41, <1>1, <1>3, <1>4, <1>5, <1>6, <1>7, <1>8, <1>9, <1>35, <1>36, <1>38, <1>39,
     Dispatches, Meant DEF GoesTo, IdsOf, WorkspaceCalls, PeerOnlyCalls, SessionOnlyCalls
<1>42. CASE o = "delete_workspace"
  BY <1>42, <1>2, Dispatches, Meant DEF GoesTo, IdsOf, WorkspaceCalls, PeerOnlyCalls,
     SessionOnlyCalls
<1>43. CASE o = "workspaces"
  BY <1>43, <1>10, Dispatches, Meant DEF GoesTo, IdsOf, WorkspaceCalls, PeerOnlyCalls,
     SessionOnlyCalls
<1>44. CASE o \in PeerOnlyCalls
  BY <1>44, <1>11, <1>12, <1>13, <1>14, <1>15, <1>16, <1>17, <1>18, <1>19, <1>37, Dispatches,
     Meant DEF GoesTo, IdsOf, WorkspaceCalls, PeerOnlyCalls, SessionOnlyCalls
<1>45. CASE o \in SessionOnlyCalls
  BY <1>45, <1>20, <1>21, <1>22, <1>23, <1>26, <1>27, <1>28, <1>31, <1>32, <1>33, Dispatches,
     Meant DEF GoesTo, IdsOf, WorkspaceCalls, PeerOnlyCalls, SessionOnlyCalls
<1>46. CASE o \in {"get_peer_configuration", "set_peer_configuration"}
  BY <1>46, <1>24, <1>25, Dispatches, Meant DEF GoesTo, IdsOf, WorkspaceCalls, PeerOnlyCalls,
     SessionOnlyCalls
<1>47. CASE o \in {"get_message", "update_message"}
  BY <1>47, <1>29, <1>30, Dispatches, Meant DEF GoesTo, IdsOf, WorkspaceCalls, PeerOnlyCalls,
     SessionOnlyCalls
<1>48. CASE o = "session_representation"
  BY <1>48, <1>34, Dispatches, Meant DEF GoesTo, IdsOf, WorkspaceCalls, PeerOnlyCalls,
     SessionOnlyCalls
<1>49. CASE o = "delete_conclusion"
  BY <1>49, <1>40, Dispatches, Meant DEF GoesTo, IdsOf, WorkspaceCalls, PeerOnlyCalls,
     SessionOnlyCalls
<1>. QED BY <1>41, <1>42, <1>43, <1>44, <1>45, <1>46, <1>47, <1>48, <1>49 DEF AsyncCalls,
         ClientCalls, PeerCalls, SessionCalls, ScopeCalls, ++, WorkspaceCalls, PeerOnlyCalls,
         SessionOnlyCalls

LEMMA CallParts ==
  /\ \A o \in DOMAIN ClientCalls : AsyncCalls[o] = ClientCalls[o]
  /\ \A o \in DOMAIN PeerCalls : AsyncCalls[o] = PeerCalls[o]
  /\ \A o \in DOMAIN SessionCalls : AsyncCalls[o] = SessionCalls[o]
  /\ \A o \in DOMAIN ScopeCalls : AsyncCalls[o] = ScopeCalls[o]
  /\ DOMAIN AsyncCalls = DOMAIN ClientCalls \cup DOMAIN PeerCalls \cup DOMAIN SessionCalls
                           \cup DOMAIN ScopeCalls
<1>1. /\ \A o \in DOMAIN PeerCalls : o \notin DOMAIN ClientCalls
      /\ \A o \in DOMAIN SessionCalls : o \notin DOMAIN ClientCalls \cup DOMAIN PeerCalls
      /\ \A o \in DOMAIN ScopeCalls :
           o \notin DOMAIN ClientCalls \cup DOMAIN PeerCalls \cup DOMAIN SessionCalls
  BY DEF ClientCalls, PeerCalls, SessionCalls, ScopeCalls
<1>. QED BY <1>1 DEF AsyncCalls, ++

\* The arguments that are ids of a path, by the calls that take them.
TakesIds(o, c) ==
  /\ "workspace_id" \in c.may => o = "delete_workspace" /\ "workspace_id" \in c.must
  /\ "peer_id" \in c.may =>
       \/ o = "upload_file"
       \/ /\ o \in {"get_peer_configuration", "set_peer_configuration", "session_representation"}
          /\ "peer_id" \in c.must
  /\ "message_id" \in c.may =>
       \/ o = "clone_session"
       \/ o \in {"get_message", "update_message"} /\ "message_id" \in c.must
  /\ "conclusion_id" \in c.may => o = "delete_conclusion" /\ "conclusion_id" \in c.must
  /\ o = "delete_workspace" => "workspace_id" \in c.must
  /\ o \in {"get_peer_configuration", "set_peer_configuration", "session_representation"} =>
       "peer_id" \in c.must
  /\ o \in {"get_message", "update_message"} => "message_id" \in c.must
  /\ o = "delete_conclusion" => "conclusion_id" \in c.must

LEMMA IdArguments == \A o \in DOMAIN AsyncCalls : TakesIds(o, AsyncCalls[o])
<1>1. \A o \in DOMAIN ClientCalls : TakesIds(o, ClientCalls[o])
  BY DEF ClientCalls, Takes, TakesIds, Paging
<1>2. \A o \in DOMAIN PeerCalls : TakesIds(o, PeerCalls[o])
  BY DEF PeerCalls, Takes, TakesIds, Paging, ChatOptions, ChatStreamSetters,
     RepresentationSetters,
         ContextSetters, PeerContextOptions, MessageSetters, SearchParams
<1>3. \A o \in DOMAIN SessionCalls : TakesIds(o, SessionCalls[o])
  BY DEF SessionCalls, Takes, TakesIds, UploadFileSetters, SessionRepresentationSetters,
         SessionContextSetters, SearchParams
<1>4. \A o \in DOMAIN ScopeCalls : TakesIds(o, ScopeCalls[o])
  BY DEF ScopeCalls, Takes, TakesIds, ScopeRepresentationSetters, ListSetters, QuerySetters,
         SearchParams
<1>. QED BY <1>1, <1>2, <1>3, <1>4, CallParts

\* The ids of a path, by the calls that go there.
Within(o, ids) ==
  LET path == Templates[Shape[MeantFor[o]].route] IN
    \A i \in DOMAIN path : path[i] \in Parameters => path[i] \in ids

LEMMA PathsOfCalls ==
  /\ \A o \in WorkspaceCalls : Within(o, {"workspace_id"})
  /\ \A o \in PeerOnlyCalls : Within(o, {"workspace_id", "peer_id"})
  /\ \A o \in SessionOnlyCalls : Within(o, {"workspace_id", "session_id"})
  /\ Within("workspaces", {})
  /\ Within("delete_workspace", {"workspace_id"})
  /\ Within("session_representation", {"workspace_id", "peer_id"})
  /\ \A o \in {"get_peer_configuration", "set_peer_configuration"} :
       Within(o, {"workspace_id", "session_id", "peer_id"})
  /\ \A o \in {"get_message", "update_message"} :
       Within(o, {"workspace_id", "session_id", "message_id"})
  /\ Within("delete_conclusion", {"workspace_id", "conclusion_id"})
<1> DEFINE Only(routes, ids) ==
             \A r \in routes : \A i \in DOMAIN Templates[r] :
               Templates[r][i] \in Parameters => Templates[r][i] \in ids
           W == {"workspace", "workspace_search", "workspace_queue_status",
                 "workspace_schedule_dream", "peers", "peers_list", "sessions", "sessions_list",
                 "conclusions", "conclusions_list", "conclusions_query"}
           P == {"peer_chat", "peer_representation", "peer_card", "peer_context", "peer_search",
                 "peer_sessions_list"}
           S == {"session", "session_clone", "session_context", "session_summaries",
                 "session_search", "session_peers", "messages", "messages_upload"}
<1>1. Only(W, {"workspace_id"})
  <2>1. Only({"workspace", "workspace_search", "workspace_queue_status",
              "workspace_schedule_dream"}, {"workspace_id"})
    BY TemplateParts DEF WorkspaceRoutes, Parameters
  <2>2. Only({"peers", "peers_list"}, {"workspace_id"})
    BY TemplateParts DEF PeerRoutes, Parameters
  <2>3. Only({"sessions", "sessions_list"}, {"workspace_id"})
    BY TemplateParts DEF SessionRoutes, Parameters
  <2>4. Only({"conclusions", "conclusions_list", "conclusions_query"}, {"workspace_id"})
    BY TemplateParts DEF ConclusionRoutes, Parameters
  <2>. QED BY <2>1, <2>2, <2>3, <2>4
<1>2. Only(P, {"workspace_id", "peer_id"})
  BY TemplateParts DEF PeerRoutes, Parameters
<1>3. Only(S, {"workspace_id", "session_id"})
  BY TemplateParts DEF SessionRoutes, MessageRoutes, Parameters
<1>4. /\ Only({"workspaces_list"}, {})
      /\ Only({"session_peer_config"}, {"workspace_id", "session_id", "peer_id"})
      /\ Only({"message"}, {"workspace_id", "session_id", "message_id"})
      /\ Only({"conclusion"}, {"workspace_id", "conclusion_id"})
  <2>1. Only({"workspaces_list"}, {})
    BY TemplateParts DEF WorkspaceRoutes, Parameters
  <2>2. Only({"session_peer_config"}, {"workspace_id", "session_id", "peer_id"})
    BY TemplateParts DEF SessionRoutes, Parameters
  <2>3. Only({"message"}, {"workspace_id", "session_id", "message_id"})
    BY TemplateParts DEF MessageRoutes, Parameters
  <2>4. Only({"conclusion"}, {"workspace_id", "conclusion_id"})
    BY TemplateParts DEF ConclusionRoutes, Parameters
  <2>. QED BY <2>1, <2>2, <2>3, <2>4
<1>5. \A o \in WorkspaceCalls : Shape[MeantFor[o]].route \in W
  BY Meant DEF GoesTo, WorkspaceCalls
<1>6. \A o \in PeerOnlyCalls : Shape[MeantFor[o]].route \in P
  BY Meant DEF GoesTo, PeerOnlyCalls
<1>7. \A o \in SessionOnlyCalls : Shape[MeantFor[o]].route \in S
  BY Meant DEF GoesTo, SessionOnlyCalls
<1>8. /\ Shape[MeantFor["workspaces"]].route = "workspaces_list"
      /\ Shape[MeantFor["delete_workspace"]].route \in W
      /\ Shape[MeantFor["session_representation"]].route \in P
      /\ Shape[MeantFor["get_peer_configuration"]].route = "session_peer_config"
      /\ Shape[MeantFor["set_peer_configuration"]].route = "session_peer_config"
      /\ Shape[MeantFor["get_message"]].route = "message"
      /\ Shape[MeantFor["update_message"]].route = "message"
      /\ Shape[MeantFor["delete_conclusion"]].route = "conclusion"
  BY Meant DEF GoesTo
<1>. HIDE DEF W, P, S
<1>9. /\ \A o \in WorkspaceCalls : Within(o, {"workspace_id"})
      /\ \A o \in PeerOnlyCalls : Within(o, {"workspace_id", "peer_id"})
      /\ \A o \in SessionOnlyCalls : Within(o, {"workspace_id", "session_id"})
  BY <1>1, <1>2, <1>3, <1>5, <1>6, <1>7 DEF Within
<1>10. /\ Within("delete_workspace", {"workspace_id"})
       /\ Within("session_representation", {"workspace_id", "peer_id"})
  BY <1>1, <1>2, <1>8 DEF Within
<1>11. /\ Within("workspaces", {})
       /\ \A o \in {"get_peer_configuration", "set_peer_configuration"} :
            Within(o, {"workspace_id", "session_id", "peer_id"})
       /\ \A o \in {"get_message", "update_message"} :
            Within(o, {"workspace_id", "session_id", "message_id"})
       /\ Within("delete_conclusion", {"workspace_id", "conclusion_id"})
  BY <1>4, <1>8 DEF Within
<1>. QED BY <1>9, <1>10, <1>11

\* The id a caller means by a parameter of a path.
IdMeant(a, p) ==
  IF p \in DOMAIN a /\ p # "session_id" THEN a[p]
  ELSE CASE p = "workspace_id" -> Workspace
         [] p = "peer_id"      -> Peer
         [] p = "session_id"   -> Session

LEMMA IdsAsMeant ==
  ASSUME NEW o \in DOMAIN AsyncCalls, NEW a,
         DOMAIN a \subseteq AsyncCalls[o].may, AsyncCalls[o].must \subseteq DOMAIN a,
         NEW i \in DOMAIN Templates[Shape[MeantFor[o]].route],
         Templates[Shape[MeantFor[o]].route][i] \in Parameters
  PROVE  LET p == Templates[Shape[MeantFor[o]].route][i] IN
           /\ IdsOf(o, a)[p] = IdMeant(a, p)
           /\ p \in DOMAIN a \cup {"workspace_id", "peer_id", "session_id"}
<1> DEFINE p == Templates[Shape[MeantFor[o]].route][i]
<1>0. TakesIds(o, AsyncCalls[o])
  BY IdArguments
<1>1. CASE o \in WorkspaceCalls
  <2>1. p = "workspace_id" /\ o # "delete_workspace"
    BY <1>1, PathsOfCalls DEF Within, WorkspaceCalls
  <2>2. "workspace_id" \notin DOMAIN a
    BY <1>0, <2>1 DEF TakesIds
  <2>3. IdsOf(o, a) = OfWorkspace
    BY <1>1 DEF IdsOf, WorkspaceCalls, PeerOnlyCalls, SessionOnlyCalls
  <2>. QED BY <2>1, <2>2, <2>3 DEF OfWorkspace, IdMeant
<1>2. CASE o \in PeerOnlyCalls
  <2>1. /\ p \in {"workspace_id", "peer_id"} /\ o \notin WorkspaceCalls
        /\ o \notin {"delete_workspace", "upload_file", "get_peer_configuration",
                     "set_peer_configuration", "session_representation"}
    BY <1>2, PathsOfCalls DEF Within, PeerOnlyCalls, WorkspaceCalls
  <2>2. p \notin DOMAIN a
    BY <1>0, <2>1 DEF TakesIds
  <2>3. IdsOf(o, a) = OfPeer(Peer)
    BY <1>2 DEF IdsOf, WorkspaceCalls, PeerOnlyCalls, SessionOnlyCalls
  <2>. QED BY <2>1, <2>2, <2>3 DEF OfPeer, IdMeant
<1>3. CASE o \in SessionOnlyCalls
  <2>1. /\ p \in {"workspace_id", "session_id"} /\ o \notin WorkspaceCalls \cup PeerOnlyCalls
        /\ o # "delete_workspace"
    BY <1>3, PathsOfCalls DEF Within, PeerOnlyCalls, WorkspaceCalls, SessionOnlyCalls
  <2>2. "workspace_id" \notin DOMAIN a
    BY <1>0, <2>1 DEF TakesIds
  <2>3. IdsOf(o, a) = OfSession
    BY <1>3 DEF IdsOf, WorkspaceCalls, PeerOnlyCalls, SessionOnlyCalls
  <2>. QED BY <2>1, <2>2, <2>3 DEF OfSession, IdMeant
<1>4. CASE o = "workspaces"
  BY <1>4, PathsOfCalls DEF Within
<1>5. CASE o = "delete_workspace"
  <2>1. p = "workspace_id" /\ "workspace_id" \in DOMAIN a
    BY <1>0, <1>5, PathsOfCalls DEF Within, TakesIds
  <2>2. IdsOf(o, a) = [workspace_id |-> a["workspace_id"]]
    BY <1>5 DEF IdsOf, WorkspaceCalls, PeerOnlyCalls, SessionOnlyCalls
  <2>. QED BY <2>1, <2>2 DEF IdMeant
<1>6. CASE o = "session_representation"
  <2>1. p \in {"workspace_id", "peer_id"} /\ "peer_id" \in DOMAIN a /\ "workspace_id" \notin DOMAIN a
    BY <1>0, <1>6, PathsOfCalls DEF Within, TakesIds
  <2>2. IdsOf(o, a) = OfPeer(a["peer_id"])
    BY <1>6 DEF IdsOf, WorkspaceCalls, PeerOnlyCalls, SessionOnlyCalls
  <2>. QED BY <2>1, <2>2 DEF IdMeant, OfPeer
<1>7. CASE o \in {"get_peer_configuration", "set_peer_configuration"}
  <2>1. p \in {"workspace_id", "session_id", "peer_id"}
        /\ "peer_id" \in DOMAIN a /\ "workspace_id" \notin DOMAIN a
    BY <1>0, <1>7, PathsOfCalls DEF Within, TakesIds
  <2>2. IdsOf(o, a) = OfSession ++ Given(a, {"peer_id"})
    BY <1>7 DEF IdsOf, WorkspaceCalls, PeerOnlyCalls, SessionOnlyCalls
  <2>. QED BY <2>1, <2>2 DEF IdMeant, OfSession, Given, Restrict, ++
<1>8. CASE o \in {"get_message", "update_message"}
  <2>1. p \in {"workspace_id", "session_id", "message_id"}
        /\ "message_id" \in DOMAIN a /\ "workspace_id" \notin DOMAIN a
    BY <1>0, <1>8, PathsOfCalls DEF Within, TakesIds
  <2>2. IdsOf(o, a) = OfSession ++ Given(a, {"message_id"})
    BY <1>8 DEF IdsOf, WorkspaceCalls, PeerOnlyCalls, SessionOnlyCalls
  <2>. QED BY <2>1, <2>2 DEF IdMeant, OfSession, Given, Restrict, ++
<1>9. CASE o = "delete_conclusion"
  <2>1. p \in {"workspace_id", "conclusion_id"}
        /\ "conclusion_id" \in DOMAIN a /\ "workspace_id" \notin DOMAIN a
    BY <1>0, <1>9, PathsOfCalls DEF Within, TakesIds
  <2>2. IdsOf(o, a) = OfWorkspace ++ Given(a, {"conclusion_id"})
    BY <1>9 DEF IdsOf, WorkspaceCalls, PeerOnlyCalls, SessionOnlyCalls
  <2>. QED BY <2>1, <2>2 DEF IdMeant, OfWorkspace, Given, Restrict, ++
<1>. QED BY <1>1, <1>2, <1>3, <1>4, <1>5, <1>6, <1>7, <1>8, <1>9
     DEF AsyncCalls, ClientCalls, PeerCalls, SessionCalls, ScopeCalls, ++,
         WorkspaceCalls, PeerOnlyCalls, SessionOnlyCalls

LEMMA ShapedCalls ==
  ASSUME NEW o \in DOMAIN AsyncCalls
  PROVE  /\ MeantFor[o] \in DOMAIN Api
         /\ Api[MeantFor[o]].method = Shape[MeantFor[o]].method
         /\ Api[MeantFor[o]].path = Templates[Shape[MeantFor[o]].route]
<1>1. MeantFor[o] \in DOMAIN WorkspaceApi \cup DOMAIN PeerApi \cup DOMAIN SessionApi
  <2>1. CASE o \in DOMAIN ClientCalls
    BY <2>1 DEF MeantFor, ClientCalls, WorkspaceApi, PeerApi, SessionApi
  <2>2. CASE o \in DOMAIN PeerCalls
    BY <2>2 DEF MeantFor, PeerCalls, WorkspaceApi, PeerApi, SessionApi
  <2>3. CASE o \in DOMAIN SessionCalls
    BY <2>3 DEF MeantFor, SessionCalls, WorkspaceApi, PeerApi, SessionApi
  <2>4. CASE o \in DOMAIN ScopeCalls
    BY <2>4 DEF MeantFor, ScopeCalls, WorkspaceApi, PeerApi, SessionApi
  <2>. QED BY <2>1, <2>2, <2>3, <2>4, CallParts
<1>2. MeantFor[o] \in DOMAIN Api
  BY <1>1, ApiParts
<1>. QED BY <1>2, ApiShapes DEF HasRoute

LEMMA HandleIds ==
  \A id \in {Workspace, Peer, Session} : id \in Seq(Chars)
<1>1. ASSUME NEW id \in {Workspace, Peer, Session} PROVE id \in Seq(Chars)
  <2>1. id \in Seq(Letters) /\ Letters \subseteq Chars
    BY HandleAssumption DEF Chars
  <2>. QED BY <2>1
<1>. QED BY <1>1

\* A call with the arguments its operation asks for, if it is not refused, is taken to
\* the endpoint it is meant for and to no other, with the ids meant.
LEMMA CallReaches ==
  ASSUME NEW o \in DOMAIN AsyncCalls, NEW a,
         DOMAIN a \subseteq AsyncCalls[o].may, AsyncCalls[o].must \subseteq DOMAIN a,
         \A k \in DOMAIN a : k \in DOMAIN Values /\ a[k] \in Values[k],
         ~RequestOf(o, a).refused
  PROVE  /\ ServedBy(RequestOf(o, a)) = {MeantFor[o]}
         /\ LET ids == PathIds(MeantFor[o], RequestOf(o, a)) IN
              \A p \in DOMAIN ids : ids[p] = IdMeant(a, p)
         /\ DOMAIN PathIds(MeantFor[o], RequestOf(o, a))
              = {Api[MeantFor[o]].path[i] : i \in DOMAIN Api[MeantFor[o]].path} \cap Parameters
<1> DEFINE e == MeantFor[o]
           r == RequestOf(o, a)
           path == Api[e].path
           ids == IdsOf(o, a)
<1>1. /\ e \in DOMAIN Api
      /\ Api[e].method = Shape[e].method /\ path = Templates[Shape[e].route]
  BY ShapedCalls
<1>2. r.method = Api[e].method /\ r.url = Fill(path, ids) /\ Checked(path, ids)
  BY <1>1, CallsSent DEF Sends
<1>3. ASSUME NEW i \in DOMAIN path, path[i] \in Parameters
      PROVE  /\ ids[path[i]] = IdMeant(a, path[i])
             /\ path[i] \in DOMAIN a \cup {"workspace_id", "peer_id", "session_id"}
  BY <1>1, <1>3, IdsAsMeant
<1>4. ASSUME NEW i \in DOMAIN path, path[i] \in Parameters
      PROVE  ids[path[i]] \in Seq(Chars)
  <2>1. CASE path[i] \in DOMAIN a /\ path[i] # "session_id"
    <3>1. ids[path[i]] = a[path[i]]
      BY <1>3, <1>4, <2>1 DEF IdMeant
    <3>2. path[i] \in Parameters \cap DOMAIN Values /\ a[path[i]] \in Values[path[i]]
      BY <1>4, <2>1
    <3>. QED BY <3>1, <3>2, ValuesAssumption
  <2>2. CASE ~(path[i] \in DOMAIN a /\ path[i] # "session_id")
    <3>1. path[i] \in {"workspace_id", "peer_id", "session_id"}
      BY <1>3, <1>4, <2>2
    <3>2. ids[path[i]] \in {Workspace, Peer, Session}
      BY <1>3, <1>4, <2>2, <3>1 DEF IdMeant
    <3>. QED BY <3>2, HandleIds
  <2>. QED BY <2>1, <2>2
<1>5. /\ ServedBy(r) = {e}
      /\ \A p \in DOMAIN PathIds(e, r) : PathIds(e, r)[p] = ids[p]
      /\ DOMAIN PathIds(e, r) = {path[i] : i \in DOMAIN path} \cap Parameters
  <2>. HIDE DEF e, r, ids
  <2>. QED BY <1>1, <1>2, <1>4, TakenTo
<1>6. \A p \in DOMAIN PathIds(e, r) : PathIds(e, r)[p] = IdMeant(a, p)
  BY <1>3, <1>5
<1>. QED BY <1>5, <1>6

-----------------------------------------------------------------------------
(* The call under way.                                                      *)

\* What is under way is the request of the call, with all that its operation asks for.
CallInv ==
  /\ pc \in {"ensuring", "sending"} => AsyncCalls[op].must \subseteq DOMAIN args
  /\ pc = "sending" =>
       ~RequestOf(op, args).refused /\ Last = RequestOf(op, args)

LEMMA LastAppended ==
  ASSUME NEW x, NEW r
  PROVE  /\ LET s == Append(<<>>, r)    IN s[Len(s)] = r
         /\ LET s == Append(<<x>>, r)   IN s[Len(s)] = r
<1>1. <<>> \in Seq({x, r}) /\ <<x>> \in Seq({x, r}) /\ r \in {x, r}
  OBVIOUS
<1>. QED BY <1>1

LEMMA CallNext == SilentInv /\ CallInv /\ [Next]_vars => CallInv'
<1> SUFFICES ASSUME SilentInv, CallInv, [Next]_vars PROVE CallInv'
  OBVIOUS
<1>1. ASSUME NEW f \in {"async", "blocking"}, NEW o \in DOMAIN AsyncCalls, Begin(f, o)
      PROVE  CallInv'
  BY <1>1 DEF Begin, CallInv
<1>2. ASSUME NEW k \in DOMAIN Values, NEW v \in Values[k], Set(k, v)
      PROVE  CallInv'
  BY <1>2 DEF Set, CallInv, Last
<1>3. CASE Send
  <2>1. /\ UNCHANGED <<op, args>> /\ sent = <<>>
        /\ AsyncCalls[op].must \subseteq DOMAIN args
    BY <1>3 DEF Send, SilentInv
  <2>2. CASE pc' \notin {"ensuring", "sending"}
    BY <2>2 DEF CallInv
  <2>3. CASE pc' = "ensuring"
    BY <2>1, <2>3 DEF CallInv
  <2>4. CASE pc' = "sending"
    <3>1. ~RequestOf(op, args).refused /\ sent' = Append(sent, RequestOf(op, args))
      BY <1>3, <2>4 DEF Send, Dispatch, Refuse
    <3>2. Last' = RequestOf(op, args)
      BY <2>1, <3>1, LastAppended DEF Last
    <3>. QED BY <2>1, <2>4, <3>1, <3>2 DEF CallInv
  <2>. QED BY <2>2, <2>3, <2>4
<1>4. CASE EnsureAnswered
  <2>1. /\ UNCHANGED <<op, args>> /\ sent = <<EnsureRequest>>
        /\ AsyncCalls[op].must \subseteq DOMAIN args
    BY <1>4 DEF EnsureAnswered, SilentInv, CallInv
  <2>2. CASE pc' # "sending"
    BY <1>4, <2>2 DEF EnsureAnswered, Dispatch, Refuse, CallInv
  <2>3. CASE pc' = "sending"
    <3>1. ~RequestOf(op, args).refused /\ sent' = Append(sent, RequestOf(op, args))
      BY <1>4, <2>3 DEF EnsureAnswered, Dispatch, Refuse
    <3>2. Last' = RequestOf(op, args)
      BY <2>1, <3>1, LastAppended DEF Last
    <3>. QED BY <2>1, <2>3, <3>1, <3>2 DEF CallInv
  <2>. QED BY <2>2, <2>3
<1>5. CASE Answered
  BY <1>5 DEF Answered, CallInv, Last
<1>6. CASE UNCHANGED vars
  BY <1>6 DEF vars, CallInv, Last
<1>. QED BY <1>1, <1>2, <1>3, <1>4, <1>5, <1>6 DEF Next

LEMMA Silent == Spec => []SilentInv
BY SilentInit, SilentNext, PTL DEF Spec

LEMMA Calling == Spec => []CallInv
<1>1. Init => CallInv
  BY DEF Init, CallInv
<1>2. CallInv /\ SilentInv /\ [Next]_vars => CallInv'
  BY CallNext
<1>. QED BY Silent, <1>1, <1>2, PTL DEF Spec

LEMMA LastIsTheCall ==
  ASSUME TypeOK, CallInv, Under
  PROVE  /\ Last = RequestOf(op, args) /\ ~Last.refused
         /\ op \in DOMAIN AsyncCalls
         /\ DOMAIN args \subseteq AsyncCalls[op].may /\ AsyncCalls[op].must \subseteq DOMAIN args
         /\ \A k \in DOMAIN args : k \in DOMAIN Values /\ args[k] \in Values[k]
BY DEF TypeOK, CallInv, Under

\* Whatever ids of whatever length a client, its handles and its calls are given: a URL
\* parser and the server take each request to the endpoint the call is meant for, to no
\* other, and with those ids.
THEOREM ReachesItsEndpointHolds == Spec => []ReachesItsEndpoint
<1>1. TypeOK /\ CallInv => ReachesItsEndpoint
  <2> SUFFICES ASSUME TypeOK, CallInv, Under
               PROVE  /\ ServedBy(Last) = {MeantFor[op]}
                      /\ LET ids == PathIds(MeantFor[op], Last) IN
                           \A p \in DOMAIN ids : ids[p] = IdMeant(args, p)
    BY Zenon DEF ReachesItsEndpoint, IdMeant
  <2>. QED BY LastIsTheCall, CallReaches
<1>. QED BY TypeCorrect, Calling, <1>1, PTL

-----------------------------------------------------------------------------
(* What a request carries, and what the server reads of it.                 *)

\* The request for a call, unless it is refused, has these keys.
Carries(r, query, body) == r.refused \/ (r.query = query /\ r.body = body)

LEMMA RequestCarries ==
  ASSUME NEW method, NEW route, NEW ids, NEW query, NEW body
  PROVE  Carries(Request(method, route, ids, query, body), query, body)
<1>1. CASE Checked(Templates[route], ids)
  BY <1>1 DEF Carries, Request
<1>2. CASE ~Checked(Templates[route], ids)
  BY <1>2 DEF Carries, Request, Refusal
<1>. QED BY <1>1, <1>2

LEMMA UnlessCarries ==
  ASSUME NEW ok, NEW r, NEW query, NEW body, Carries(r, query, body)
  PROVE  Carries(When(ok, r), query, body)
<1>1. Carries(Refusal, query, body)
  BY DEF Carries, Refusal
<1>. QED BY <1>1 DEF When

\* What a list of conclusions is asked for with.
ListArgs(a) ==
  [filters |-> Given(a, {"session_id"}) ++ Scoped(a)] ++ Given(a, {"page", "size", "reverse"})

LEMMA ClientCarries ==
  ASSUME NEW a
  PROVE  /\ Carries(Honcho_update(a), NoKeys, Given(a, {"metadata", "configuration"}))
         /\ Carries(Honcho_delete_workspace(a), NoKeys, NoKeys)
         /\ Carries(Honcho_peer(a), NoKeys, Given(a, {"id", "metadata", "configuration"}))
         /\ Carries(Honcho_session(a), NoKeys,
            (IF "peers" \in DOMAIN a THEN [peers |-> LastOfEach(a["peers"])] ELSE NoKeys)
                 ++ Given(a, {"id", "metadata", "configuration"}))
         /\ Carries(Honcho_search(a), NoKeys,
            [limit |-> Or(a, "limit", 10)] ++ Given(a, {"query", "filters"}))
         /\ Carries(Honcho_queue_status(a), Given(a, {"observer_id", "sender_id", "session_id"}),
            NoKeys)
         /\ Carries(Honcho_schedule_dream(a), NoKeys,
            [dream_type |-> "omni", observer |-> a["observer"],
                  observed |-> Or(a, "observed", a["observer"])] ++ Given(a, {"session_id"}))
         /\ Carries(Honcho_peers_with_filters(a), PageQuery(a), Given(a, {"filters"}))
         /\ Carries(Honcho_sessions_with_filters(a), PageQuery(a), Given(a, {"filters"}))
         /\ Carries(Honcho_workspaces(a), PageQuery(a), Given(a, {"filters"}))
BY RequestCarries, UnlessCarries, Zenon DEF Honcho_update, Honcho_delete_workspace, Honcho_peer,
       Honcho_session, Honcho_search, Honcho_queue_status, Honcho_schedule_dream,
       Honcho_peers_with_filters, paginate_post, Honcho_sessions_with_filters, Honcho_workspaces

LEMMA PeerCarries ==
  ASSUME NEW a
  PROVE  /\ Carries(Peer_chat(a), NoKeys, DialecticOptions(a))
         /\ Carries(Peer_chat_stream(a), NoKeys, [stream |-> TRUE] ++ DialecticOptions(a))
         /\ Carries(Peer_representation(a), NoKeys,
            Given(a, SearchParams \cup {"session_id", "target"}))
         /\ Carries(Peer_context(a), Given(a, SearchParams \cup {"target", "summary", "limit_to_session"}),
            NoKeys)
         /\ Carries(Peer_context_with_options(a), Given(Given(a, SearchParams \cup {"target"}),
                               SearchParams \cup {"target", "summary", "limit_to_session"}),
            NoKeys)
         /\ Carries(Peer_sessions(a), PageQuery(a), Given(a, {"filters"}))
         /\ Carries(Peer_search(a), NoKeys,
            [limit |-> Or(a, "limit", 10)] ++ Given(a, {"query", "filters"}))
         /\ Carries(Peer_get_card(a), Given(a, {"target"}), NoKeys)
         /\ Carries(Peer_set_card(a), Given(a, {"target"}), Given(a, {"peer_card"}))
         /\ Carries(Peer_message(a), NoKeys, [messages |-> <<MessageOf(a)>>])
BY RequestCarries, UnlessCarries, Zenon DEF Peer_chat, Peer_chat_stream, Peer_representation,
       Peer_context, Peer_context_with_options, Peer_sessions, paginate_post, Peer_search,
       search_with_options, Peer_get_card, Peer_set_card, Peer_message

LEMMA SessionCarries ==
  ASSUME NEW a
  PROVE  /\ Carries(Session_add_peers(a), NoKeys, Bare(normalize_peers(a["peers"])))
         /\ Carries(Session_set_peers(a), NoKeys, Bare(normalize_peers(a["peers"])))
         /\ Carries(Session_remove_peers(a), NoKeys, Bare(a["ids"]))
         /\ Carries(Session_get_peer_configuration(a), NoKeys, NoKeys)
         /\ Carries(Session_set_peer_configuration(a), NoKeys, Bare(a["configuration"]))
         /\ Carries(Session_upload_file(a), NoKeys,
            Given(a, {"file", "peer_id", "metadata", "configuration", "created_at"}))
         /\ Carries(Session_delete(a), NoKeys, NoKeys)
         /\ Carries(Session_clone(a), Given(a, {"message_id"}), NoKeys)
         /\ Carries(Session_get_message(a), NoKeys, NoKeys)
         /\ Carries(Session_update_message(a), NoKeys, Given(a, {"metadata"}))
         /\ Carries(Session_context(a), to_query_params(a), NoKeys)
         /\ Carries(Session_summaries(a), NoKeys, NoKeys)
         /\ Carries(Session_search(a), NoKeys,
            [limit |-> Or(a, "limit", 10)] ++ Given(a, {"query", "filters"}))
         /\ Carries(Session_representation(a), NoKeys,
            [session_id |-> Session] ++ Given(a, SearchParams \cup {"target"}))
         /\ Carries(Session_queue_status(a), [session_id |-> Session] ++ Given(a, {"observer_id", "sender_id"}),
            NoKeys)
BY RequestCarries, UnlessCarries, Zenon DEF Session_add_peers, Session_set_peers,
       Session_remove_peers, Session_get_peer_configuration, Session_set_peer_configuration,
       Session_upload_file, Session_delete, Session_clone, Session_get_message,
       Session_update_message, Session_context, Session_summaries, Session_search,
       search_with_options, Session_representation, Session_queue_status

LEMMA ScopeCarries ==
  ASSUME NEW a
  PROVE  /\ Carries(Scope_create(a), NoKeys, [conclusions |-> <<ConclusionOf(a)>>])
         /\ Carries(Scope_representation(a), NoKeys,
            [target |-> Observed(a)] ++ Given(a, SearchParams))
         /\ Carries(Scope_list(a), PageQuery(ListArgs(a)), Given(ListArgs(a), {"filters"}))
         /\ Carries(Scope_query(a), NoKeys,
            [top_k |-> Or(a, "top_k", 10), filters |-> Scoped(a)] ++ Given(a, {"query", "distance"}))
         /\ Carries(Scope_delete(a), NoKeys, NoKeys)
BY RequestCarries, UnlessCarries, Zenon DEF Scope_create, Scope_representation, Scope_list,
       paginate_post, ListArgs, Scope_query, Scope_delete

\* What an endpoint reads from the query and from the body, and what it takes when a
\* key is not sent.
Has(e, query, body, defaults) ==
  Api[e].query = query /\ Api[e].body = body /\ Api[e].defaults = defaults

LEMMA EndpointReads ==
  ASSUME NEW method, NEW path, NEW query, NEW body, NEW defaults
  PROVE  LET e == Endpoint(method, path, query, body, defaults) IN
           e.query = query /\ e.body = body /\ e.defaults = defaults
BY DEF Endpoint

LEMMA ListReads ==
  ASSUME NEW path
  PROVE  LET e == List(path) IN
           /\ e.query = {"page", "size", "reverse"} /\ e.body = {"filters"}
           /\ e.defaults = [page |-> 1, size |-> 50, reverse |-> FALSE]
BY EndpointReads DEF List

LEMMA SearchReads ==
  ASSUME NEW path
  PROVE  LET e == Search(path) IN
           /\ e.query = {} /\ e.body = {"query", "limit", "filters"}
           /\ e.defaults = [limit |-> 10]
BY EndpointReads DEF Search

LEMMA WorkspaceReads ==
  /\ Has("list_workspaces", {"page", "size", "reverse"}, {"filters"},
       [page |-> 1, size |-> 50, reverse |-> FALSE])
  /\ Has("create_workspace", {}, {"id", "metadata", "configuration"}, NoKeys)
  /\ Has("update_workspace", {}, {"metadata", "configuration"}, NoKeys)
  /\ Has("delete_workspace", {}, {}, NoKeys)
  /\ Has("search_workspace", {}, {"query", "limit", "filters"}, [limit |-> 10])
  /\ Has("queue_status", {"observer_id", "sender_id", "session_id"}, {}, NoKeys)
  /\ Has("schedule_dream", {}, {"observer", "observed", "dream_type", "session_id"}, NoKeys)
  /\ Has("create_conclusions", {}, {"content", "observer_id", "observed_id", "session_id"},
       NoKeys)
  /\ Has("list_conclusions", {"page", "size", "reverse"}, {"filters"},
       [page |-> 1, size |-> 50, reverse |-> FALSE])
  /\ Has("query_conclusions", {}, {"query", "top_k", "distance", "filters"}, [top_k |-> 10])
  /\ Has("delete_conclusion", {}, {}, NoKeys)
<1>1. /\ Has("create_workspace", {}, {"id", "metadata", "configuration"}, NoKeys)
      /\ Has("update_workspace", {}, {"metadata", "configuration"}, NoKeys)
      /\ Has("delete_workspace", {}, {}, NoKeys)
      /\ Has("queue_status", {"observer_id", "sender_id", "session_id"}, {}, NoKeys)
      /\ Has("schedule_dream", {}, {"observer", "observed", "dream_type", "session_id"}, NoKeys)
      /\ Has("create_conclusions", {}, {"content", "observer_id", "observed_id", "session_id"},
          NoKeys)
      /\ Has("delete_conclusion", {}, {}, NoKeys)
  BY ApiParts DEF Has, WorkspaceApi, Endpoint, Plain
<1>2. /\ Api["list_workspaces"] = List(<<"list">>)
      /\ Api["search_workspace"] = Search(<<"workspace_id", "search">>)
      /\ Api["list_conclusions"] = List(<<"workspace_id", "conclusions", "list">>)
      /\ Api["query_conclusions"] = Endpoint("POST", <<"workspace_id", "conclusions",
             "query">>, {}, {"query", "top_k", "distance", "filters"}, [top_k |-> 10])
  BY ApiParts DEF WorkspaceApi
<1>3. /\ Has("list_workspaces", {"page", "size", "reverse"}, {"filters"},
          [page |-> 1, size |-> 50, reverse |-> FALSE])
      /\ Has("search_workspace", {}, {"query", "limit", "filters"}, [limit |-> 10])
      /\ Has("list_conclusions", {"page", "size", "reverse"}, {"filters"},
          [page |-> 1, size |-> 50, reverse |-> FALSE])
      /\ Has("query_conclusions", {}, {"query", "top_k", "distance", "filters"}, [top_k |-> 10])
  BY <1>2, EndpointReads, ListReads, SearchReads DEF Has
<1>. QED BY <1>1, <1>3

LEMMA PeerReads ==
  /\ Has("create_peer", {}, {"id", "metadata", "configuration"}, NoKeys)
  /\ Has("list_peers", {"page", "size", "reverse"}, {"filters"},
       [page |-> 1, size |-> 50, reverse |-> FALSE])
  /\ Has("peer_chat", {}, {"query", "session_id", "target", "stream", "reasoning_level"},
       [stream |-> FALSE, reasoning_level |-> "low"])
  /\ Has("peer_representation", {}, SearchParams \cup {"session_id", "target"}, NoKeys)
  /\ Has("get_card", {"target"}, {}, NoKeys)
  /\ Has("set_card", {"target"}, {"peer_card"}, NoKeys)
  /\ Has("peer_context", SearchParams \cup {"target"}, {}, NoKeys)
  /\ Has("search_peer", {}, {"query", "limit", "filters"}, [limit |-> 10])
  /\ Has("list_peer_sessions", {"page", "size", "reverse"}, {"filters"},
       [page |-> 1, size |-> 50, reverse |-> FALSE])
<1>1. /\ Has("create_peer", {}, {"id", "metadata", "configuration"}, NoKeys)
      /\ Has("peer_representation", {}, SearchParams \cup {"session_id", "target"}, NoKeys)
      /\ Has("get_card", {"target"}, {}, NoKeys)
      /\ Has("set_card", {"target"}, {"peer_card"}, NoKeys)
      /\ Has("peer_context", SearchParams \cup {"target"}, {}, NoKeys)
  BY ApiParts DEF Has, PeerApi, Endpoint, Plain
<1>2. /\ Api["list_peers"] = List(<<"workspace_id", "peers", "list">>)
      /\ Api["peer_chat"] = Endpoint("POST", <<"workspace_id", "peers", "peer_id",
             "chat">>, {}, {"query", "session_id", "target", "stream",
             "reasoning_level"}, [stream |-> FALSE, reasoning_level |-> "low"])
      /\ Api["search_peer"] = Search(<<"workspace_id", "peers", "peer_id", "search">>)
      /\ Api["list_peer_sessions"] = List(<<"workspace_id", "peers", "peer_id",
             "sessions">>)
  BY ApiParts DEF PeerApi
<1>3. /\ Has("list_peers", {"page", "size", "reverse"}, {"filters"},
          [page |-> 1, size |-> 50, reverse |-> FALSE])
      /\ Has("peer_chat", {}, {"query", "session_id", "target", "stream", "reasoning_level"},
          [stream |-> FALSE, reasoning_level |-> "low"])
      /\ Has("search_peer", {}, {"query", "limit", "filters"}, [limit |-> 10])
      /\ Has("list_peer_sessions", {"page", "size", "reverse"}, {"filters"},
          [page |-> 1, size |-> 50, reverse |-> FALSE])
  BY <1>2, EndpointReads, ListReads, SearchReads DEF Has
<1>. QED BY <1>1, <1>3

LEMMA SessionReads ==
  /\ Has("create_session", {}, {"id", "metadata", "configuration", "peers"}, NoKeys)
  /\ Has("list_sessions", {"page", "size", "reverse"}, {"filters"},
       [page |-> 1, size |-> 50, reverse |-> FALSE])
  /\ Has("delete_session", {}, {}, NoKeys)
  /\ Has("clone_session", {"message_id"}, {}, NoKeys)
  /\ Has("session_context",
       SearchParams \cup {"summary", "limit_to_session", "tokens", "peer_target", "peer_perspective"}, {},
       [summary |-> TRUE, limit_to_session |-> FALSE])
  /\ Has("summaries", {}, {}, NoKeys)
  /\ Has("search_session", {}, {"query", "limit", "filters"}, [limit |-> 10])
  /\ Has("add_peers", {}, {"peers"}, NoKeys)
  /\ Has("set_peers", {}, {"peers"}, NoKeys)
  /\ Has("remove_peers", {}, {"ids"}, NoKeys)
  /\ Has("get_peer_config", {}, {}, NoKeys)
  /\ Has("set_peer_config", {}, {"configuration"}, NoKeys)
  /\ Has("create_messages",
       {}, {"peer_id", "content", "metadata", "configuration", "created_at"},
       NoKeys)
  /\ Has("upload", {}, {"file", "peer_id", "metadata", "configuration", "created_at"}, NoKeys)
  /\ Has("get_message", {}, {}, NoKeys)
  /\ Has("update_message", {}, {"metadata"}, NoKeys)
<1>1. /\ Has("create_session", {}, {"id", "metadata", "configuration", "peers"}, NoKeys)
      /\ Has("delete_session", {}, {}, NoKeys)
      /\ Has("clone_session", {"message_id"}, {}, NoKeys)
      /\ Has("summaries", {}, {}, NoKeys)
      /\ Has("add_peers", {}, {"peers"}, NoKeys)
      /\ Has("set_peers", {}, {"peers"}, NoKeys)
      /\ Has("remove_peers", {}, {"ids"}, NoKeys)
      /\ Has("get_peer_config", {}, {}, NoKeys)
      /\ Has("set_peer_config", {}, {"configuration"}, NoKeys)
      /\ Has("create_messages",
          {}, {"peer_id", "content", "metadata", "configuration", "created_at"},
          NoKeys)
      /\ Has("upload", {}, {"file", "peer_id", "metadata", "configuration", "created_at"}, NoKeys)
      /\ Has("get_message", {}, {}, NoKeys)
      /\ Has("update_message", {}, {"metadata"}, NoKeys)
  BY ApiParts DEF Has, SessionApi, Endpoint, Plain
<1>2. /\ Api["list_sessions"] = List(<<"workspace_id", "sessions", "list">>)
      /\ Api["session_context"] = Endpoint("GET", <<"workspace_id", "sessions",
             "session_id", "context">>, SearchParams \cup {"summary", "limit_to_session",
             "tokens", "peer_target", "peer_perspective"}, {}, [summary |-> TRUE,
             limit_to_session |-> FALSE])
      /\ Api["search_session"] = Search(<<"workspace_id", "sessions", "session_id",
             "search">>)
  BY ApiParts DEF SessionApi
<1>3. /\ Has("list_sessions", {"page", "size", "reverse"}, {"filters"},
          [page |-> 1, size |-> 50, reverse |-> FALSE])
      /\ Has("session_context",
          SearchParams \cup {"summary", "limit_to_session", "tokens", "peer_target", "peer_perspective"}, {},
          [summary |-> TRUE, limit_to_session |-> FALSE])
      /\ Has("search_session", {}, {"query", "limit", "filters"}, [limit |-> 10])
  BY <1>2, EndpointReads, ListReads, SearchReads DEF Has
<1>. QED BY <1>1, <1>3

\* The server looks for a key in the query, in the body and in the path, and then takes
\* its own.
LEMMA KeyRead ==
  ASSUME NEW e, NEW r, NEW k
  PROVE  LET read    == Reads(e, r)
             found   == Found(e, r.body)
             inQuery == k \in Api[e].query /\ k \in DOMAIN r.query
             inBody  == k \in Api[e].body /\ k \in DOMAIN found
             inPath  == k \in DOMAIN PathIds(e, r)
             left    == k \in DOMAIN Api[e].defaults IN
           /\ k \in DOMAIN read <=> inQuery \/ inBody \/ inPath \/ left
           /\ inQuery => read[k] = r.query[k]
           /\ ~inQuery /\ inBody => read[k] = found[k]
           /\ ~inQuery /\ ~inBody /\ inPath => read[k] = PathIds(e, r)[k]
           /\ ~inQuery /\ ~inBody /\ ~inPath /\ left => read[k] = Api[e].defaults[k]
BY DEF Reads, Given, Restrict, ++

\* A call that has been sent: its arguments are those its operation takes.
Asked(o, a) ==
  /\ o \in DOMAIN AsyncCalls
  /\ DOMAIN a \subseteq AsyncCalls[o].may /\ AsyncCalls[o].must \subseteq DOMAIN a
  /\ \A k \in DOMAIN a : k \in DOMAIN Values /\ a[k] \in Values[k]
  /\ ~RequestOf(o, a).refused

ReadOf(o, a) == Reads(MeantFor[o], RequestOf(o, a))

\* The calls whose body is not an object with the members that are read.
Enclosed ==
  {"add_peers", "set_peers", "remove_peers", "set_peer_configuration", "message", "create"}

LEMMA OpenBody ==
  ASSUME NEW o, NEW a, Asked(o, a), o \notin Enclosed
  PROVE  Found(MeantFor[o], RequestOf(o, a).body) = RequestOf(o, a).body
<1>1. \A c \in DOMAIN ClientCalls \cup DOMAIN PeerCalls \cup DOMAIN SessionCalls \cup DOMAIN ScopeCalls :
        c \notin Enclosed => MeantFor[c] \notin DOMAIN BodyIs \cup DOMAIN BodyLists
  <2>1. \A c \in DOMAIN ClientCalls : MeantFor[c] \notin DOMAIN BodyIs \cup DOMAIN BodyLists
    BY DEF ClientCalls, MeantFor, BodyIs, BodyLists
  <2>2. \A c \in DOMAIN PeerCalls :
          c \notin Enclosed => MeantFor[c] \notin DOMAIN BodyIs \cup DOMAIN BodyLists
    BY DEF PeerCalls, MeantFor, BodyIs, BodyLists, Enclosed
  <2>3. \A c \in DOMAIN SessionCalls :
          c \notin Enclosed => MeantFor[c] \notin DOMAIN BodyIs \cup DOMAIN BodyLists
    BY DEF SessionCalls, MeantFor, BodyIs, BodyLists, Enclosed
  <2>4. \A c \in DOMAIN ScopeCalls :
          c \notin Enclosed => MeantFor[c] \notin DOMAIN BodyIs \cup DOMAIN BodyLists
    BY DEF ScopeCalls, MeantFor, BodyIs, BodyLists, Enclosed
  <2>. QED BY <2>1, <2>2, <2>3, <2>4
<1>2. MeantFor[o] \notin DOMAIN BodyIs \cup DOMAIN BodyLists
  BY <1>1, CallParts DEF Asked
<1>. QED BY <1>2 DEF Found

\* The endpoint takes the bare body for what the schema calls it, and the item out of its
\* list.
LEMMA EnclosedBody ==
  ASSUME NEW a
  PROVE  LET found(o) == Found(MeantFor[o], RequestOf(o, a).body) IN
           /\ \A o \in {"add_peers", "set_peers"} :
                Asked(o, a) => found(o) = [peers |-> normalize_peers(a["peers"])]
           /\ Asked("remove_peers", a) => found("remove_peers") = [ids |-> a["ids"]]
           /\ Asked("set_peer_configuration", a) =>
                found("set_peer_configuration") = [configuration |-> a["configuration"]]
           /\ Asked("message", a) => found("message") = MessageOf(a)
           /\ Asked("create", a) => found("create") = ConclusionOf(a)
<1>0. ASSUME NEW e \in DOMAIN BodyIs, NEW v
      PROVE  Found(e, Bare(v)) = Named(BodyIs[e], v)
  <2>1. "itself" \in DOMAIN Bare(v) /\ Bare(v)["itself"] = v
    BY DEF Bare
  <2>. QED BY <2>1 DEF Found, BodyIs, BodyLists
<1>1. /\ Found("add_peers", Bare(normalize_peers(a["peers"]))) = [peers |-> normalize_peers(a["peers"])]
      /\ Found("set_peers", Bare(normalize_peers(a["peers"]))) = [peers |-> normalize_peers(a["peers"])]
      /\ Found("remove_peers", Bare(a["ids"])) = [ids |-> a["ids"]]
      /\ Found("set_peer_config", Bare(a["configuration"])) = [configuration |-> a["configuration"]]
  <2>1. /\ "add_peers" \in DOMAIN BodyIs /\ BodyIs["add_peers"] = "peers"
        /\ "set_peers" \in DOMAIN BodyIs /\ BodyIs["set_peers"] = "peers"
        /\ "remove_peers" \in DOMAIN BodyIs /\ BodyIs["remove_peers"] = "ids"
        /\ "set_peer_config" \in DOMAIN BodyIs /\ BodyIs["set_peer_config"] = "configuration"
    BY DEF BodyIs
  <2>2. ASSUME NEW v
        PROVE  /\ Named("peers", v) = [peers |-> v] /\ Named("ids", v) = [ids |-> v]
               /\ Named("configuration", v) = [configuration |-> v]
    BY DEF Named
  <2>. QED BY <1>0, <2>1, <2>2
<1>2. Found("create_messages", [messages |-> <<MessageOf(a)>>]) = MessageOf(a)
  BY DEF Found, BodyIs, BodyLists
<1>3. Found("create_conclusions", [conclusions |-> <<ConclusionOf(a)>>]) = ConclusionOf(a)
  BY DEF Found, BodyIs, BodyLists
<1>4. /\ MeantFor["add_peers"] = "add_peers" /\ MeantFor["set_peers"] = "set_peers"
      /\ MeantFor["remove_peers"] = "remove_peers"
      /\ MeantFor["set_peer_configuration"] = "set_peer_config"
      /\ MeantFor["message"] = "create_messages" /\ MeantFor["create"] = "create_conclusions"
  BY DEF MeantFor
<1>5. /\ Asked("add_peers", a) => RequestOf("add_peers", a).body = Bare(normalize_peers(a["peers"]))
      /\ Asked("set_peers", a) => RequestOf("set_peers", a).body = Bare(normalize_peers(a["peers"]))
      /\ Asked("remove_peers", a) => RequestOf("remove_peers", a).body = Bare(a["ids"])
      /\ Asked("set_peer_configuration", a) =>
           RequestOf("set_peer_configuration", a).body = Bare(a["configuration"])
  BY SessionCarries, Dispatches DEF Asked, Carries
<1>6. Asked("message", a) => RequestOf("message", a).body = [messages |-> <<MessageOf(a)>>]
  BY PeerCarries, Dispatches DEF Asked, Carries
<1>7. Asked("create", a) => RequestOf("create", a).body = [conclusions |-> <<ConclusionOf(a)>>]
  BY ScopeCarries, Dispatches DEF Asked, Carries
<1>. QED BY <1>1, <1>2, <1>3, <1>4, <1>5, <1>6, <1>7, Zenon

\* The parameter is in the path of the endpoint a call is meant for.
Names(o, p) ==
  LET path == Templates[Shape[MeantFor[o]].route] IN
    p \in Parameters /\ \E i \in DOMAIN path : path[i] = p

LEMMA CallNames ==
  /\ \A o \in PeerOnlyCalls \cup {"session_representation"} : Names(o, "peer_id")
  /\ Names("get_peer_configuration", "peer_id") /\ Names("set_peer_configuration", "peer_id")
  /\ Names("get_message", "message_id") /\ Names("update_message", "message_id")
  /\ Names("session_context", "session_id")
  /\ Names("delete_workspace", "workspace_id") /\ Names("delete_conclusion", "conclusion_id")
<1> DEFINE Has1(r, p) == \E i \in DOMAIN Templates[r] : Templates[r][i] = p
<1>1. /\ Has1("peer_chat", "peer_id") /\ Has1("peer_representation", "peer_id")
      /\ Has1("peer_card", "peer_id") /\ Has1("peer_context", "peer_id")
      /\ Has1("peer_search", "peer_id") /\ Has1("peer_sessions_list", "peer_id")
  BY TemplateParts DEF PeerRoutes
<1>2. Has1("session_peer_config", "peer_id") /\ Has1("session_context", "session_id")
  BY TemplateParts DEF SessionRoutes
<1>3. Has1("message", "message_id")
  BY TemplateParts DEF MessageRoutes
<1>4. Has1("workspace", "workspace_id")
  BY TemplateParts DEF WorkspaceRoutes
<1>5. Has1("conclusion", "conclusion_id")
  BY TemplateParts DEF ConclusionRoutes
<1>. HIDE DEF Has1
<1>6. \A o \in PeerOnlyCalls \cup {"session_representation"} : Has1(Shape[MeantFor[o]].route, "peer_id")
  BY <1>1, Meant DEF GoesTo, PeerOnlyCalls
<1>7. /\ Has1(Shape[MeantFor["get_peer_configuration"]].route, "peer_id")
      /\ Has1(Shape[MeantFor["set_peer_configuration"]].route, "peer_id")
      /\ Has1(Shape[MeantFor["get_message"]].route, "message_id")
      /\ Has1(Shape[MeantFor["update_message"]].route, "message_id")
      /\ Has1(Shape[MeantFor["session_context"]].route, "session_id")
      /\ Has1(Shape[MeantFor["delete_workspace"]].route, "workspace_id")
      /\ Has1(Shape[MeantFor["delete_conclusion"]].route, "conclusion_id")
  BY <1>2, <1>3, <1>4, <1>5, Meant DEF GoesTo
<1>. QED BY <1>6, <1>7 DEF Has1, Names, Parameters

LEMMA CallIds ==
  ASSUME NEW o, NEW a, Asked(o, a)
  PROVE  LET ids == PathIds(MeantFor[o], RequestOf(o, a)) IN
           /\ \A p : p \in DOMAIN ids <=> Names(o, p)
           /\ \A p \in DOMAIN ids : ids[p] = IdMeant(a, p)
<1>1. Api[MeantFor[o]].path = Templates[Shape[MeantFor[o]].route]
  BY ShapedCalls DEF Asked
<1>2. /\ DOMAIN PathIds(MeantFor[o], RequestOf(o, a))
             = {Api[MeantFor[o]].path[i] : i \in DOMAIN Api[MeantFor[o]].path} \cap Parameters
      /\ LET ids == PathIds(MeantFor[o], RequestOf(o, a)) IN
           \A p \in DOMAIN ids : ids[p] = IdMeant(a, p)
  BY CallReaches DEF Asked
<1>. QED BY <1>1, <1>2 DEF Names

\* A key that is read just when it is set, and as it was set.
Same(read, a, k) ==
  /\ k \in DOMAIN read <=> k \in DOMAIN a
  /\ k \in DOMAIN a => read[k] = a[k]

LEMMA OrSame ==
  ASSUME NEW read, NEW a, NEW k, NEW default, Same(read, a, k)
  PROVE  Or(read, k, default) = Or(a, k, default)
BY DEF Same, Or

\* What a call takes, and what it is not made without.
Of(o, must, may) ==
  AsyncCalls[o].must = must /\ AsyncCalls[o].may = must \cup may

LEMMA ClientTakes ==
  /\ Of("update", {}, {"metadata", "configuration"})
  /\ Of("delete_workspace", {"workspace_id"}, {})
  /\ Of("peer", {"id"}, {"metadata", "configuration"})
  /\ Of("session", {"id"}, {"metadata", "configuration", "peers"})
  /\ Of("search", {"query"}, {"limit", "filters"})
  /\ Of("queue_status", {}, {"observer_id", "sender_id", "session_id"})
  /\ Of("schedule_dream", {"observer"}, {"observed", "session_id"})
  /\ Of("peers_with_filters", {"filters"}, Paging)
  /\ Of("sessions_with_filters", {"filters"}, Paging)
  /\ Of("workspaces", {}, {})
BY CallParts DEF Of, ClientCalls, Takes

LEMMA PeerTakes ==
  /\ Of("chat", {"query"}, ChatOptions)
  /\ Of("chat_stream", {"query"}, ChatStreamSetters)
  /\ Of("representation", {}, RepresentationSetters)
  /\ Of("context", {}, ContextSetters)
  /\ Of("context_with_options", {}, PeerContextOptions)
  /\ Of("sessions", {}, Paging)
  /\ Of("peer_search", {"query"}, {"limit", "filters"})
  /\ Of("get_card", {}, {"target"})
  /\ Of("set_card", {"peer_card"}, {"target"})
  /\ Of("message", {"content"}, MessageSetters)
BY CallParts DEF Of, PeerCalls, Takes

LEMMA SessionTakes ==
  /\ Of("add_peers", {"peers"}, {})
  /\ Of("set_peers", {"peers"}, {})
  /\ Of("remove_peers", {"ids"}, {})
  /\ Of("get_peer_configuration", {"peer_id"}, {})
  /\ Of("set_peer_configuration", {"peer_id", "configuration"}, {})
  /\ Of("upload_file", {"file"}, UploadFileSetters)
  /\ Of("delete", {}, {})
  /\ Of("clone_session", {}, {"message_id"})
  /\ Of("get_message", {"message_id"}, {})
  /\ Of("update_message", {"message_id", "metadata"}, {})
  /\ Of("session_context", {}, SessionContextSetters)
  /\ Of("summaries", {}, {})
  /\ Of("session_search", {"query"}, {"limit", "filters"})
  /\ Of("session_representation", {"peer_id"}, SessionRepresentationSetters)
  /\ Of("session_queue_status", {}, {"observer_id", "sender_id"})
BY CallParts DEF Of, SessionCalls, Takes

LEMMA ScopeTakes ==
  /\ Of("create", {"content"}, {"of", "session_id"})
  /\ Of("scope_representation", {}, ScopeRepresentationSetters \cup {"of"})
  /\ Of("list", {}, ListSetters \cup {"of"})
  /\ Of("query", {"query"}, QuerySetters \cup {"of"})
  /\ Of("delete_conclusion", {"conclusion_id"}, {"of"})
BY CallParts DEF Of, ScopeCalls, Takes

\* The ids that a path has.
LEMMA OnlyIds ==
  ASSUME NEW o, NEW a, Asked(o, a), NEW p \in DOMAIN PathIds(MeantFor[o], RequestOf(o, a))
  PROVE  /\ o \in WorkspaceCalls \cup {"delete_workspace"} => p = "workspace_id"
         /\ o \in PeerOnlyCalls \cup {"session_representation"} => p \in {"workspace_id", "peer_id"}
         /\ o \in SessionOnlyCalls => p \in {"workspace_id", "session_id"}
         /\ o # "workspaces"
<1>1. Names(o, p)
  BY CallIds
<1>. QED BY <1>1, PathsOfCalls DEF Names, Within

\* A key that is read as it was set.
Kept(read, a, k) == k \in DOMAIN a => k \in DOMAIN read /\ read[k] = a[k]

LEMMA SameIsKept ==
  ASSUME NEW read, NEW a, NEW k, Same(read, a, k)
  PROVE  Kept(read, a, k)
BY DEF Same, Kept

LEMMA KeptRead ==
  ASSUME NEW e, NEW r, NEW a, NEW k
  PROVE  /\ k \in Api[e].query /\ Kept(r.query, a, k) => Kept(Reads(e, r), a, k)
         /\ k \notin Api[e].query /\ k \in Api[e].body /\ Kept(Found(e, r.body), a, k)
              => Kept(Reads(e, r), a, k)
BY KeyRead DEF Kept

LEMMA SameRead ==
  ASSUME NEW e, NEW r, NEW a, NEW k,
         k \notin DOMAIN PathIds(e, r), k \notin DOMAIN Api[e].defaults
  PROVE  /\ k \in Api[e].query /\ k \notin Api[e].body /\ Same(r.query, a, k)
              => Same(Reads(e, r), a, k)
         /\ k \notin Api[e].query /\ k \in Api[e].body /\ Same(Found(e, r.body), a, k)
              => Same(Reads(e, r), a, k)
         /\ k \notin Api[e].query /\ k \notin Api[e].body /\ k \notin DOMAIN a
              => Same(Reads(e, r), a, k)
BY KeyRead DEF Same

LEMMA SameGiven ==
  ASSUME NEW a, NEW keys, NEW k \in keys
  PROVE  Same(Given(a, keys), a, k)
BY DEF Same, Given, Restrict

LEMMA SameAfter ==
  ASSUME NEW f, NEW g, NEW a, NEW k, k \notin DOMAIN f, Same(g, a, k)
  PROVE  Same(f ++ g, a, k)
BY DEF Same, ++

\* A key that is set to the endpoint's default may be left out.
LEMMA LeftOutKept ==
  ASSUME NEW e, NEW r, NEW a, NEW k,
         k \notin Api[e].query \/ k \notin DOMAIN r.query,
         k \notin Api[e].body \/ k \notin DOMAIN Found(e, r.body),
         k \notin DOMAIN PathIds(e, r), k \in DOMAIN Api[e].defaults, Api[e].defaults[k] = a[k]
  PROVE  Kept(Reads(e, r), a, k)
BY KeyRead DEF Kept

LEMMA PathKept ==
  ASSUME NEW o, NEW a, Asked(o, a), NEW p, Names(o, p), p # "session_id",
         p \notin Api[MeantFor[o]].query, p \notin Api[MeantFor[o]].body
  PROVE  Kept(ReadOf(o, a), a, p)
<1>1. /\ p \in DOMAIN PathIds(MeantFor[o], RequestOf(o, a))
      /\ p \in DOMAIN a => PathIds(MeantFor[o], RequestOf(o, a))[p] = a[p]
  BY CallIds DEF IdMeant
<1>. QED BY <1>1, KeyRead DEF Kept, ReadOf

\* A list is asked for a page and a size in any case, and for the order when it is reversed.
LEMMA PagesKept ==
  ASSUME NEW o, NEW a, Asked(o, a), NEW body, Carries(RequestOf(o, a), PageQuery(a), body),
         LET e == Api[MeantFor[o]] IN
           /\ e.query = {"page", "size", "reverse"} /\ e.body = {"filters"}
           /\ e.defaults = [page |-> 1, size |-> 50, reverse |-> FALSE],
         o \notin Enclosed
  PROVE  /\ \A k \in {"page", "size", "reverse"} : Kept(ReadOf(o, a), a, k)
         /\ Kept(body, a, "filters") => Kept(ReadOf(o, a), a, "filters")
<1> DEFINE e == MeantFor[o]
           r == RequestOf(o, a)
<1>1. r.query = PageQuery(a) /\ r.body = body /\ Found(e, r.body) = r.body
  BY OpenBody DEF Asked, Carries
<1>2. Kept(PageQuery(a), a, "page") /\ Kept(PageQuery(a), a, "size")
  BY DEF Kept, PageQuery, Or, ++
<1>3. \A k \in {"page", "size"} : Kept(ReadOf(o, a), a, k)
  BY <1>1, <1>2, KeptRead DEF ReadOf
<1>4. Kept(body, a, "filters") => Kept(ReadOf(o, a), a, "filters")
  BY <1>1, KeptRead DEF ReadOf
<1>5. Kept(ReadOf(o, a), a, "reverse")
  <2>1. "reverse" \in DOMAIN a => a["reverse"] \in BOOLEAN
    BY ValuesAssumption DEF Asked
  <2>2. CASE "reverse" \in DOMAIN a /\ a["reverse"] = TRUE
    <3>1. Kept(PageQuery(a), a, "reverse")
      BY <2>2 DEF Kept, PageQuery, Or, ++
    <3>. QED BY <1>1, <3>1, KeptRead DEF ReadOf
  <2>3. CASE "reverse" \in DOMAIN a /\ a["reverse"] = FALSE
    <3>1. "reverse" \notin DOMAIN PageQuery(a)
      BY <2>3 DEF PageQuery, Or, ++, NoKeys
    <3>2. "reverse" \notin DOMAIN PathIds(e, r)
      BY CallIds DEF Names, Parameters
    <3>3. "reverse" \in DOMAIN Api[e].defaults /\ Api[e].defaults["reverse"] = FALSE
      OBVIOUS
    <3>4. Api[e].defaults["reverse"] = a["reverse"]
      BY <2>3, <3>3, Zenon
    <3>5. "reverse" \notin DOMAIN r.query /\ "reverse" \notin Api[e].body
      BY <1>1, <3>1
    <3>. QED BY <3>2, <3>3, <3>4, <3>5, LeftOutKept DEF ReadOf
  <2>. QED BY <2>1, <2>2, <2>3 DEF Kept
<1>. QED BY <1>3, <1>4, <1>5

LEMMA DialecticKept ==
  ASSUME NEW a, "stream" \in DOMAIN a => a["stream"] \in BOOLEAN
  PROVE  /\ \A k \in {"query", "session_id", "target"} : Same(DialecticOptions(a), a, k)
         /\ \/ Kept(DialecticOptions(a), a, "stream")
            \/ a["stream"] = FALSE /\ "stream" \notin DOMAIN DialecticOptions(a)
         /\ \/ Kept(DialecticOptions(a), a, "reasoning_level")
            \/ a["reasoning_level"] = "low" /\ "reasoning_level" \notin DOMAIN DialecticOptions(a)
<1>1. \A k \in {"query", "session_id", "target"} : Same(DialecticOptions(a), a, k)
  BY SameGiven DEF DialecticOptions
<1>2. CASE "stream" \in DOMAIN a /\ a["stream"] = TRUE
  BY <1>1, <1>2 DEF Kept, DialecticOptions, Given, Restrict, Or
<1>3. CASE "stream" \in DOMAIN a /\ a["stream"] = FALSE
  BY <1>1, <1>3 DEF Kept, DialecticOptions, Given, Restrict, Or
<1>4. CASE "stream" \notin DOMAIN a
  BY <1>1, <1>4 DEF Kept, DialecticOptions, Given, Restrict, Or
<1>. QED BY <1>2, <1>3, <1>4

\* But for those named, the keys that are set are read as they were set.
AllKept(o, a, but) == \A k \in DOMAIN a \ but : Kept(ReadOf(o, a), a, k)

LEMMA BodyKept ==
  ASSUME NEW o, NEW a, Asked(o, a), NEW query, NEW body, Carries(RequestOf(o, a), query, body),
         NEW but, NEW keys, Api[MeantFor[o]].query = {}, Api[MeantFor[o]].body = keys,
         \A k \in DOMAIN a \ but : k \in keys /\ Kept(body, a, k),
         o \notin Enclosed
  PROVE  AllKept(o, a, but)
<1>1. Found(MeantFor[o], RequestOf(o, a).body) = body
  BY OpenBody DEF Asked, Carries
<1>. QED BY <1>1, KeptRead DEF ReadOf, AllKept

LEMMA EnclosedKept ==
  ASSUME NEW o, NEW a, NEW found, Found(MeantFor[o], RequestOf(o, a).body) = found,
         NEW but, NEW keys, Api[MeantFor[o]].query = {}, Api[MeantFor[o]].body = keys,
         \A k \in DOMAIN a \ but : k \in keys /\ Kept(found, a, k)
  PROVE  AllKept(o, a, but)
BY KeptRead DEF ReadOf, AllKept

LEMMA QueryKept ==
  ASSUME NEW o, NEW a, Asked(o, a), NEW query, NEW body, Carries(RequestOf(o, a), query, body),
         NEW but, NEW keys, Api[MeantFor[o]].query = keys,
         \A k \in DOMAIN a \ but : k \in keys /\ Kept(query, a, k)
  PROVE  AllKept(o, a, but)
BY KeptRead DEF Asked, Carries, ReadOf, AllKept

LEMMA ClientCallsKept ==
  ASSUME NEW a
  PROVE  /\ Asked("update", a) => AllKept("update", a, {})
         /\ Asked("delete_workspace", a) => AllKept("delete_workspace", a, {})
         /\ Asked("peer", a) => AllKept("peer", a, {})
         /\ Asked("session", a) => AllKept("session", a, {"peers"})
         /\ Asked("search", a) => AllKept("search", a, {})
         /\ Asked("queue_status", a) => AllKept("queue_status", a, {})
         /\ Asked("schedule_dream", a) => AllKept("schedule_dream", a, {})
         /\ Asked("peers_with_filters", a) => AllKept("peers_with_filters", a, {})
         /\ Asked("sessions_with_filters", a) => AllKept("sessions_with_filters", a, {})
         /\ Asked("workspaces", a) => AllKept("workspaces", a, {})
<1>1. ASSUME Asked("update", a) PROVE AllKept("update", a, {})
  <2> DEFINE body == Given(a, {"metadata", "configuration"})
  <2>1. Carries(RequestOf("update", a), NoKeys, body)
    BY ClientCarries, Dispatches
  <2>2. \A k \in DOMAIN a : k \in {"metadata", "configuration"} /\ Kept(body, a, k)
    BY <1>1, ClientTakes DEF Asked, Of, Kept, Given, Restrict
  <2>3. /\ Api[MeantFor["update"]].query = {}
        /\ Api[MeantFor["update"]].body = {"metadata", "configuration"}
    BY WorkspaceReads DEF Has, MeantFor
  <2>. HIDE DEF body
  <2>. QED BY <1>1, <2>1, <2>2, <2>3, BodyKept DEF Enclosed
<1>2. ASSUME Asked("delete_workspace", a) PROVE AllKept("delete_workspace", a, {})
  <2>1. Api[MeantFor["delete_workspace"]].query = {} /\ Api[MeantFor["delete_workspace"]].body = {}
    BY WorkspaceReads DEF Has, MeantFor
  <2>2. Kept(ReadOf("delete_workspace", a), a, "workspace_id")
    BY <1>2, <2>1, PathKept, CallNames
  <2>. QED BY <1>2, <2>2, ClientTakes DEF Asked, Of, AllKept
<1>3. ASSUME Asked("peer", a) PROVE AllKept("peer", a, {})
  <2> DEFINE body == Given(a, {"id", "metadata", "configuration"})
  <2>1. Carries(RequestOf("peer", a), NoKeys, body)
    BY ClientCarries, Dispatches
  <2>2. \A k \in DOMAIN a : k \in {"id", "metadata", "configuration"} /\ Kept(body, a, k)
    BY <1>3, ClientTakes DEF Asked, Of, Kept, Given, Restrict
  <2>3. /\ Api[MeantFor["peer"]].query = {}
        /\ Api[MeantFor["peer"]].body = {"id", "metadata", "configuration"}
    BY PeerReads DEF Has, MeantFor
  <2>. HIDE DEF body
  <2>. QED BY <1>3, <2>1, <2>2, <2>3, BodyKept DEF Enclosed
<1>4. ASSUME Asked("session", a) PROVE AllKept("session", a, {"peers"})
  <2> DEFINE peers == IF "peers" \in DOMAIN a THEN [peers |-> LastOfEach(a["peers"])] ELSE NoKeys
             body  == peers ++ Given(a, {"id", "metadata", "configuration"})
  <2>1. Carries(RequestOf("session", a), NoKeys, body)
    BY ClientCarries, Dispatches
  <2>2. \A k \in DOMAIN a \ {"peers"} :
          k \in {"id", "metadata", "configuration"} /\ k \notin DOMAIN peers
    BY <1>4, ClientTakes DEF Asked, Of, NoKeys
  <2>. HIDE DEF peers
  <2>3. \A k \in DOMAIN a \ {"peers"} : Kept(body, a, k)
    BY <2>2, SameGiven, SameAfter, SameIsKept
  <2>4. /\ Api[MeantFor["session"]].query = {}
        /\ Api[MeantFor["session"]].body = {"id", "metadata", "configuration", "peers"}
    BY SessionReads DEF Has, MeantFor
  <2>. HIDE DEF body
  <2>. QED BY <1>4, <2>1, <2>2, <2>3, <2>4, BodyKept DEF Enclosed
<1>5. ASSUME Asked("search", a) PROVE AllKept("search", a, {})
  <2> DEFINE body == [limit |-> Or(a, "limit", 10)] ++ Given(a, {"query", "filters"})
  <2>1. Carries(RequestOf("search", a), NoKeys, body)
    BY ClientCarries, Dispatches
  <2>2. \A k \in DOMAIN a : k \in {"query", "limit", "filters"} /\ Kept(body, a, k)
    BY <1>5, ClientTakes DEF Asked, Of, Kept, Given, Restrict, ++, Or
  <2>3. /\ Api[MeantFor["search"]].query = {}
        /\ Api[MeantFor["search"]].body = {"query", "limit", "filters"}
    BY WorkspaceReads DEF Has, MeantFor
  <2>. HIDE DEF body
  <2>. QED BY <1>5, <2>1, <2>2, <2>3, BodyKept DEF Enclosed
<1>6. ASSUME Asked("queue_status", a) PROVE AllKept("queue_status", a, {})
  <2> DEFINE query == Given(a, {"observer_id", "sender_id", "session_id"})
  <2>1. Carries(RequestOf("queue_status", a), query, NoKeys)
    BY ClientCarries, Dispatches
  <2>2. \A k \in DOMAIN a : k \in {"observer_id", "sender_id", "session_id"} /\ Kept(query, a, k)
    BY <1>6, ClientTakes DEF Asked, Of, Kept, Given, Restrict
  <2>3. /\ Api[MeantFor["queue_status"]].query = {"observer_id", "sender_id", "session_id"}
        /\ Api[MeantFor["queue_status"]].body = {}
    BY WorkspaceReads DEF Has, MeantFor
  <2>. HIDE DEF query
  <2>. QED BY <1>6, <2>1, <2>2, <2>3, QueryKept
<1>7. ASSUME Asked("schedule_dream", a) PROVE AllKept("schedule_dream", a, {})
  <2> DEFINE body == [dream_type |-> "omni", observer |-> a["observer"], observed |-> Or(a, "observed", a["observer"])]
                     ++ Given(a, {"session_id"})
  <2>1. Carries(RequestOf("schedule_dream", a), NoKeys, body)
    BY ClientCarries, Dispatches
  <2>2. \A k \in DOMAIN a :
          /\ k \in {"observer", "observed", "dream_type", "session_id"}
          /\ Kept(body, a, k)
    BY <1>7, ClientTakes DEF Asked, Of, Kept, Given, Restrict, ++, Or
  <2>3. /\ Api[MeantFor["schedule_dream"]].query = {}
        /\ Api[MeantFor["schedule_dream"]].body = {"observer", "observed", "dream_type", "session_id"}
    BY WorkspaceReads DEF Has, MeantFor
  <2>. HIDE DEF body
  <2>. QED BY <1>7, <2>1, <2>2, <2>3, BodyKept DEF Enclosed
<1>8. ASSUME Asked("peers_with_filters", a) PROVE AllKept("peers_with_filters", a, {})
  <2>1. Carries(RequestOf("peers_with_filters", a), PageQuery(a), Given(a, {"filters"}))
    BY ClientCarries, Dispatches
  <2>2. /\ Api[MeantFor["peers_with_filters"]].query = {"page", "size", "reverse"}
        /\ Api[MeantFor["peers_with_filters"]].body = {"filters"}
        /\ Api[MeantFor["peers_with_filters"]].defaults = [page |-> 1, size |-> 50, reverse |-> FALSE]
    BY PeerReads DEF Has, MeantFor
  <2>3. DOMAIN a \subseteq Paging
    BY <1>8, ClientTakes DEF Asked, Of, Paging
  <2>. QED BY <1>8, <2>1, <2>2, <2>3, PagesKept, SameGiven, SameIsKept
       DEF AllKept, Paging, Enclosed
<1>9. ASSUME Asked("sessions_with_filters", a) PROVE AllKept("sessions_with_filters", a, {})
  <2>1. Carries(RequestOf("sessions_with_filters", a), PageQuery(a), Given(a, {"filters"}))
    BY ClientCarries, Dispatches
  <2>2. /\ Api[MeantFor["sessions_with_filters"]].query = {"page", "size", "reverse"}
        /\ Api[MeantFor["sessions_with_filters"]].body = {"filters"}
        /\ Api[MeantFor["sessions_with_filters"]].defaults = [page |-> 1, size |-> 50, reverse |-> FALSE]
    BY SessionReads DEF Has, MeantFor
  <2>3. DOMAIN a \subseteq Paging
    BY <1>9, ClientTakes DEF Asked, Of, Paging
  <2>. QED BY <1>9, <2>1, <2>2, <2>3, PagesKept, SameGiven, SameIsKept
       DEF AllKept, Paging, Enclosed
<1>10. ASSUME Asked("workspaces", a) PROVE AllKept("workspaces", a, {})
  <2>1. Carries(RequestOf("workspaces", a), PageQuery(a), Given(a, {"filters"}))
    BY ClientCarries, Dispatches
  <2>2. /\ Api[MeantFor["workspaces"]].query = {"page", "size", "reverse"}
        /\ Api[MeantFor["workspaces"]].body = {"filters"}
        /\ Api[MeantFor["workspaces"]].defaults = [page |-> 1, size |-> 50, reverse |-> FALSE]
    BY WorkspaceReads DEF Has, MeantFor
  <2>3. DOMAIN a \subseteq Paging
    BY <1>10, ClientTakes DEF Asked, Of, Paging
  <2>. QED BY <1>10, <2>1, <2>2, <2>3, PagesKept, SameGiven, SameIsKept
       DEF AllKept, Paging, Enclosed
<1>. QED BY <1>1, <1>2, <1>3, <1>4, <1>5, <1>6, <1>7, <1>8, <1>9, <1>10

LEMMA PeerCallsKept ==
  ASSUME NEW a
  PROVE  /\ Asked("representation", a) => AllKept("representation", a, {})
         /\ Asked("context", a) => AllKept("context", a, {"summary", "limit_to_session"})
         /\ Asked("context_with_options", a) => AllKept("context_with_options", a, {})
         /\ Asked("sessions", a) => AllKept("sessions", a, {})
         /\ Asked("peer_search", a) => AllKept("peer_search", a, {})
         /\ Asked("get_card", a) => AllKept("get_card", a, {})
         /\ Asked("set_card", a) => AllKept("set_card", a, {})
         /\ Asked("message", a) => AllKept("message", a, {})
<1>1. ASSUME Asked("representation", a) PROVE AllKept("representation", a, {})
  <2> DEFINE body == Given(a, SearchParams \cup {"session_id", "target"})
  <2>1. Carries(RequestOf("representation", a), NoKeys, body)
    BY PeerCarries, Dispatches
  <2>2. \A k \in DOMAIN a : k \in SearchParams \cup {"session_id", "target"} /\ Kept(body, a, k)
    BY <1>1, PeerTakes DEF Asked, Of, Kept, Given, Restrict, RepresentationSetters
  <2>3. /\ Api[MeantFor["representation"]].query = {}
        /\ Api[MeantFor["representation"]].body = SearchParams \cup {"session_id", "target"}
    BY PeerReads DEF Has, MeantFor
  <2>. HIDE DEF body
  <2>. QED BY <1>1, <2>1, <2>2, <2>3, BodyKept DEF Enclosed
<1>2. ASSUME Asked("context", a) PROVE AllKept("context", a, {"summary", "limit_to_session"})
  <2> DEFINE query == Given(a, SearchParams \cup {"target", "summary", "limit_to_session"})
  <2>1. Carries(RequestOf("context", a), query, NoKeys)
    BY PeerCarries, Dispatches
  <2>2. \A k \in DOMAIN a \ {"summary", "limit_to_session"} :
          /\ k \in SearchParams \cup {"target"}
          /\ Kept(query, a, k)
    BY <1>2, PeerTakes DEF Asked, Of, Kept, Given, Restrict, ContextSetters
  <2>3. /\ Api[MeantFor["context"]].query = SearchParams \cup {"target"}
        /\ Api[MeantFor["context"]].body = {}
    BY PeerReads DEF Has, MeantFor
  <2>. HIDE DEF query
  <2>. QED BY <1>2, <2>1, <2>2, <2>3, QueryKept
<1>3. ASSUME Asked("context_with_options", a) PROVE AllKept("context_with_options", a, {})
  <2> DEFINE query == Given(Given(a, SearchParams \cup {"target"}),
                        SearchParams \cup {"target", "summary", "limit_to_session"})
  <2>1. Carries(RequestOf("context_with_options", a), query, NoKeys)
    BY PeerCarries, Dispatches
  <2>2. \A k \in DOMAIN a : k \in SearchParams \cup {"target"} /\ Kept(query, a, k)
    BY <1>3, PeerTakes DEF Asked, Of, Kept, Given, Restrict, PeerContextOptions
  <2>3. /\ Api[MeantFor["context_with_options"]].query = SearchParams \cup {"target"}
        /\ Api[MeantFor["context_with_options"]].body = {}
    BY PeerReads DEF Has, MeantFor
  <2>. HIDE DEF query
  <2>. QED BY <1>3, <2>1, <2>2, <2>3, QueryKept
<1>4. ASSUME Asked("sessions", a) PROVE AllKept("sessions", a, {})
  <2>1. Carries(RequestOf("sessions", a), PageQuery(a), Given(a, {"filters"}))
    BY PeerCarries, Dispatches
  <2>2. /\ Api[MeantFor["sessions"]].query = {"page", "size", "reverse"}
        /\ Api[MeantFor["sessions"]].body = {"filters"}
        /\ Api[MeantFor["sessions"]].defaults = [page |-> 1, size |-> 50, reverse |-> FALSE]
    BY PeerReads DEF Has, MeantFor
  <2>3. DOMAIN a \subseteq Paging
    BY <1>4, PeerTakes DEF Asked, Of, Paging
  <2>. QED BY <1>4, <2>1, <2>2, <2>3, PagesKept, SameGiven, SameIsKept
       DEF AllKept, Paging, Enclosed
<1>5. ASSUME Asked("peer_search", a) PROVE AllKept("peer_search", a, {})
  <2> DEFINE body == [limit |-> Or(a, "limit", 10)] ++ Given(a, {"query", "filters"})
  <2>1. Carries(RequestOf("peer_search", a), NoKeys, body)
    BY PeerCarries, Dispatches
  <2>2. \A k \in DOMAIN a : k \in {"query", "limit", "filters"} /\ Kept(body, a, k)
    BY <1>5, PeerTakes DEF Asked, Of, Kept, Given, Restrict, ++, Or
  <2>3. /\ Api[MeantFor["peer_search"]].query = {}
        /\ Api[MeantFor["peer_search"]].body = {"query", "limit", "filters"}
    BY PeerReads DEF Has, MeantFor
  <2>. HIDE DEF body
  <2>. QED BY <1>5, <2>1, <2>2, <2>3, BodyKept DEF Enclosed
<1>6. ASSUME Asked("get_card", a) PROVE AllKept("get_card", a, {})
  <2> DEFINE query == Given(a, {"target"})
  <2>1. Carries(RequestOf("get_card", a), query, NoKeys)
    BY PeerCarries, Dispatches
  <2>2. \A k \in DOMAIN a : k \in {"target"} /\ Kept(query, a, k)
    BY <1>6, PeerTakes DEF Asked, Of, Kept, Given, Restrict
  <2>3. Api[MeantFor["get_card"]].query = {"target"} /\ Api[MeantFor["get_card"]].body = {}
    BY PeerReads DEF Has, MeantFor
  <2>. HIDE DEF query
  <2>. QED BY <1>6, <2>1, <2>2, <2>3, QueryKept
<1>7. ASSUME Asked("set_card", a) PROVE AllKept("set_card", a, {})
  <2>1. Carries(RequestOf("set_card", a), Given(a, {"target"}), Given(a, {"peer_card"}))
    BY PeerCarries, Dispatches
  <2>2. /\ Api[MeantFor["set_card"]].query = {"target"}
        /\ Api[MeantFor["set_card"]].body = {"peer_card"}
    BY PeerReads DEF Has, MeantFor
  <2>3. Kept(Given(a, {"target"}), a, "target") /\ Kept(Given(a, {"peer_card"}), a, "peer_card")
    BY SameGiven, SameIsKept
  <2>4. DOMAIN a \subseteq {"target", "peer_card"}
    BY <1>7, PeerTakes DEF Asked, Of
  <2>5. LET r == RequestOf("set_card", a) IN
          /\ r.query = Given(a, {"target"}) /\ r.body = Given(a, {"peer_card"})
          /\ Found(MeantFor["set_card"], r.body) = r.body
    BY <1>7, <2>1, OpenBody DEF Asked, Carries, Enclosed
  <2>. QED BY <2>2, <2>3, <2>4, <2>5, KeptRead DEF ReadOf, AllKept
<1>8. ASSUME Asked("message", a) PROVE AllKept("message", a, {})
  <2> DEFINE found == MessageOf(a)
  <2>1. Found(MeantFor["message"], RequestOf("message", a).body) = found
    BY <1>8, EnclosedBody
  <2>2. \A k \in DOMAIN a :
          /\ k \in {"peer_id", "content", "metadata", "configuration", "created_at"}
          /\ Kept(found, a, k)
    BY <1>8, PeerTakes DEF Asked, Of, Kept, Given, Restrict, ++, MessageSetters, MessageOf
  <2>3. /\ Api[MeantFor["message"]].query = {}
        /\ Api[MeantFor["message"]].body = {"peer_id", "content", "metadata", "configuration", "created_at"}
    BY SessionReads DEF Has, MeantFor
  <2>. HIDE DEF found
  <2>. QED BY <1>8, <2>1, <2>2, <2>3, EnclosedKept
<1>. QED BY <1>1, <1>2, <1>3, <1>4, <1>5, <1>6, <1>7, <1>8

LEMMA SessionCallsKept ==
  ASSUME NEW a
  PROVE  /\ Asked("add_peers", a) => AllKept("add_peers", a, {"peers"})
         /\ Asked("set_peers", a) => AllKept("set_peers", a, {"peers"})
         /\ Asked("remove_peers", a) => AllKept("remove_peers", a, {})
         /\ Asked("get_peer_configuration", a) => AllKept("get_peer_configuration", a, {})
         /\ Asked("set_peer_configuration", a) => AllKept("set_peer_configuration", a, {})
         /\ Asked("upload_file", a) => AllKept("upload_file", a, {})
         /\ Asked("delete", a) => AllKept("delete", a, {})
         /\ Asked("clone_session", a) => AllKept("clone_session", a, {})
         /\ Asked("get_message", a) => AllKept("get_message", a, {})
         /\ Asked("update_message", a) => AllKept("update_message", a, {})
         /\ Asked("session_context", a) => AllKept("session_context", a, {})
         /\ Asked("summaries", a) => AllKept("summaries", a, {})
         /\ Asked("session_search", a) => AllKept("session_search", a, {})
         /\ Asked("session_representation", a) => AllKept("session_representation", a, {})
         /\ Asked("session_queue_status", a) => AllKept("session_queue_status", a, {})
<1>1. ASSUME Asked("add_peers", a) PROVE AllKept("add_peers", a, {"peers"})
  <2> DEFINE found == [peers |-> normalize_peers(a["peers"])]
  <2>1. Found(MeantFor["add_peers"], RequestOf("add_peers", a).body) = found
    BY <1>1, EnclosedBody
  <2>2. \A k \in DOMAIN a \ {"peers"} : k \in {"peers"} /\ Kept(found, a, k)
    BY <1>1, SessionTakes DEF Asked, Of, Kept, Given, Restrict
  <2>3. Api[MeantFor["add_peers"]].query = {} /\ Api[MeantFor["add_peers"]].body = {"peers"}
    BY SessionReads DEF Has, MeantFor
  <2>. HIDE DEF found
  <2>. QED BY <1>1, <2>1, <2>2, <2>3, EnclosedKept
<1>2. ASSUME Asked("set_peers", a) PROVE AllKept("set_peers", a, {"peers"})
  <2> DEFINE found == [peers |-> normalize_peers(a["peers"])]
  <2>1. Found(MeantFor["set_peers"], RequestOf("set_peers", a).body) = found
    BY <1>2, EnclosedBody
  <2>2. \A k \in DOMAIN a \ {"peers"} : k \in {"peers"} /\ Kept(found, a, k)
    BY <1>2, SessionTakes DEF Asked, Of, Kept, Given, Restrict
  <2>3. Api[MeantFor["set_peers"]].query = {} /\ Api[MeantFor["set_peers"]].body = {"peers"}
    BY SessionReads DEF Has, MeantFor
  <2>. HIDE DEF found
  <2>. QED BY <1>2, <2>1, <2>2, <2>3, EnclosedKept
<1>3. ASSUME Asked("remove_peers", a) PROVE AllKept("remove_peers", a, {})
  <2> DEFINE found == [ids |-> a["ids"]]
  <2>1. Found(MeantFor["remove_peers"], RequestOf("remove_peers", a).body) = found
    BY <1>3, EnclosedBody
  <2>2. \A k \in DOMAIN a : k \in {"ids"} /\ Kept(found, a, k)
    BY <1>3, SessionTakes DEF Asked, Of, Kept, Given, Restrict
  <2>3. Api[MeantFor["remove_peers"]].query = {} /\ Api[MeantFor["remove_peers"]].body = {"ids"}
    BY SessionReads DEF Has, MeantFor
  <2>. HIDE DEF found
  <2>. QED BY <1>3, <2>1, <2>2, <2>3, EnclosedKept
<1>4. ASSUME Asked("get_peer_configuration", a) PROVE AllKept("get_peer_configuration", a, {})
  <2>1. /\ Api[MeantFor["get_peer_configuration"]].query = {}
        /\ Api[MeantFor["get_peer_configuration"]].body = {}
    BY SessionReads DEF Has, MeantFor
  <2>2. Kept(ReadOf("get_peer_configuration", a), a, "peer_id")
    BY <1>4, <2>1, PathKept, CallNames
  <2>. QED BY <1>4, <2>2, SessionTakes DEF Asked, Of, AllKept
<1>5. ASSUME Asked("set_peer_configuration", a) PROVE AllKept("set_peer_configuration", a, {})
  <2> DEFINE found == [configuration |-> a["configuration"]]
  <2>1. Found(MeantFor["set_peer_configuration"], RequestOf("set_peer_configuration", a).body) = found
    BY <1>5, EnclosedBody
  <2>2. \A k \in DOMAIN a \ {"peer_id"} : k \in {"configuration"} /\ Kept(found, a, k)
    BY <1>5, SessionTakes DEF Asked, Of, Kept, Given, Restrict
  <2>3. /\ Api[MeantFor["set_peer_configuration"]].query = {}
        /\ Api[MeantFor["set_peer_configuration"]].body = {"configuration"}
    BY SessionReads DEF Has, MeantFor
  <2>. HIDE DEF found
  <2>4. AllKept("set_peer_configuration", a, {"peer_id"})
    BY <1>5, <2>1, <2>2, <2>3, EnclosedKept
  <2>5. Kept(ReadOf("set_peer_configuration", a), a, "peer_id")
    BY <1>5, <2>3, PathKept, CallNames
  <2>. QED BY <2>4, <2>5 DEF AllKept
<1>6. ASSUME Asked("upload_file", a) PROVE AllKept("upload_file", a, {})
  <2> DEFINE body == Given(a, {"file", "peer_id", "metadata", "configuration", "created_at"})
  <2>1. Carries(RequestOf("upload_file", a), NoKeys, body)
    BY SessionCarries, Dispatches
  <2>2. \A k \in DOMAIN a :
          /\ k \in {"file", "peer_id", "metadata", "configuration", "created_at"}
          /\ Kept(body, a, k)
    BY <1>6, SessionTakes DEF Asked, Of, Kept, Given, Restrict, UploadFileSetters
  <2>3. /\ Api[MeantFor["upload_file"]].query = {}
        /\ Api[MeantFor["upload_file"]].body = {"file", "peer_id", "metadata", "configuration", "created_at"}
    BY SessionReads DEF Has, MeantFor
  <2>. HIDE DEF body
  <2>. QED BY <1>6, <2>1, <2>2, <2>3, BodyKept DEF Enclosed
<1>7. ASSUME Asked("delete", a) PROVE AllKept("delete", a, {})
  BY <1>7, SessionTakes DEF Asked, Of, AllKept
<1>8. ASSUME Asked("clone_session", a) PROVE AllKept("clone_session", a, {})
  <2> DEFINE query == Given(a, {"message_id"})
  <2>1. Carries(RequestOf("clone_session", a), query, NoKeys)
    BY SessionCarries, Dispatches
  <2>2. \A k \in DOMAIN a : k \in {"message_id"} /\ Kept(query, a, k)
    BY <1>8, SessionTakes DEF Asked, Of, Kept, Given, Restrict
  <2>3. /\ Api[MeantFor["clone_session"]].query = {"message_id"}
        /\ Api[MeantFor["clone_session"]].body = {}
    BY SessionReads DEF Has, MeantFor
  <2>. HIDE DEF query
  <2>. QED BY <1>8, <2>1, <2>2, <2>3, QueryKept
<1>9. ASSUME Asked("get_message", a) PROVE AllKept("get_message", a, {})
  <2>1. Api[MeantFor["get_message"]].query = {} /\ Api[MeantFor["get_message"]].body = {}
    BY SessionReads DEF Has, MeantFor
  <2>2. Kept(ReadOf("get_message", a), a, "message_id")
    BY <1>9, <2>1, PathKept, CallNames
  <2>. QED BY <1>9, <2>2, SessionTakes DEF Asked, Of, AllKept
<1>10. ASSUME Asked("update_message", a) PROVE AllKept("update_message", a, {})
  <2> DEFINE body == Given(a, {"metadata"})
  <2>1. Carries(RequestOf("update_message", a), NoKeys, body)
    BY SessionCarries, Dispatches
  <2>2. \A k \in DOMAIN a \ {"message_id"} : k \in {"metadata"} /\ Kept(body, a, k)
    BY <1>10, SessionTakes DEF Asked, Of, Kept, Given, Restrict
  <2>3. /\ Api[MeantFor["update_message"]].query = {}
        /\ Api[MeantFor["update_message"]].body = {"metadata"}
    BY SessionReads DEF Has, MeantFor
  <2>. HIDE DEF body
  <2>4. AllKept("update_message", a, {"message_id"})
    BY <1>10, <2>1, <2>2, <2>3, BodyKept DEF Enclosed
  <2>5. Kept(ReadOf("update_message", a), a, "message_id")
    BY <1>10, <2>3, PathKept, CallNames
  <2>. QED BY <2>4, <2>5 DEF AllKept
<1>11. ASSUME Asked("session_context", a) PROVE AllKept("session_context", a, {})
  <2> DEFINE query == to_query_params(a)
             rest  == SearchParams \cup {"tokens", "peer_target", "peer_perspective"}
  <2>1. Carries(RequestOf("session_context", a), query, NoKeys)
    BY SessionCarries, Dispatches
  <2>2. \A k \in DOMAIN a : k \in {"summary", "limit_to_session"} \cup rest
    BY <1>11, SessionTakes DEF Asked, Of, SessionContextSetters
  <2>3. Kept(query, a, "summary") /\ Kept(query, a, "limit_to_session")
    BY DEF to_query_params, Kept, Or, ++
  <2>4. \A k \in rest : k \notin {"summary", "limit_to_session"}
    BY DEF SearchParams
  <2>5. \A k \in rest : Kept(query, a, k)
    BY <2>4, SameGiven, SameAfter, SameIsKept DEF to_query_params
  <2>6. /\ Api[MeantFor["session_context"]].query = rest \cup {"summary", "limit_to_session"}
        /\ Api[MeantFor["session_context"]].body = {}
    BY SessionReads DEF Has, MeantFor
  <2>. HIDE DEF query, rest
  <2>. QED BY <1>11, <2>1, <2>2, <2>3, <2>5, <2>6, QueryKept
<1>12. ASSUME Asked("summaries", a) PROVE AllKept("summaries", a, {})
  BY <1>12, SessionTakes DEF Asked, Of, AllKept
<1>13. ASSUME Asked("session_search", a) PROVE AllKept("session_search", a, {})
  <2> DEFINE body == [limit |-> Or(a, "limit", 10)] ++ Given(a, {"query", "filters"})
  <2>1. Carries(RequestOf("session_search", a), NoKeys, body)
    BY SessionCarries, Dispatches
  <2>2. \A k \in DOMAIN a : k \in {"query", "limit", "filters"} /\ Kept(body, a, k)
    BY <1>13, SessionTakes DEF Asked, Of, Kept, Given, Restrict, ++, Or
  <2>3. /\ Api[MeantFor["session_search"]].query = {}
        /\ Api[MeantFor["session_search"]].body = {"query", "limit", "filters"}
    BY SessionReads DEF Has, MeantFor
  <2>. HIDE DEF body
  <2>. QED BY <1>13, <2>1, <2>2, <2>3, BodyKept DEF Enclosed
<1>14. ASSUME Asked("session_representation", a) PROVE AllKept("session_representation", a, {})
  <2> DEFINE body == [session_id |-> Session] ++ Given(a, SearchParams \cup {"target"})
  <2>1. Carries(RequestOf("session_representation", a), NoKeys, body)
    BY SessionCarries, Dispatches
  <2>2. \A k \in DOMAIN a \ {"peer_id"} :
          /\ k \in SearchParams \cup {"session_id", "target"}
          /\ Kept(body, a, k)
    BY <1>14, SessionTakes DEF Asked, Of, Kept, Given, Restrict, ++,
       SessionRepresentationSetters, SearchParams
  <2>3. /\ Api[MeantFor["session_representation"]].query = {}
        /\ Api[MeantFor["session_representation"]].body = SearchParams \cup {"session_id", "target"}
    BY PeerReads DEF Has, MeantFor
  <2>. HIDE DEF body
  <2>4. AllKept("session_representation", a, {"peer_id"})
    BY <1>14, <2>1, <2>2, <2>3, BodyKept DEF Enclosed
  <2>5. Kept(ReadOf("session_representation", a), a, "peer_id")
    BY <1>14, <2>3, PathKept, CallNames DEF SearchParams
  <2>. QED BY <2>4, <2>5 DEF AllKept
<1>15. ASSUME Asked("session_queue_status", a) PROVE AllKept("session_queue_status", a, {})
  <2> DEFINE query == [session_id |-> Session] ++ Given(a, {"observer_id", "sender_id"})
  <2>1. Carries(RequestOf("session_queue_status", a), query, NoKeys)
    BY SessionCarries, Dispatches
  <2>2. \A k \in DOMAIN a : k \in {"observer_id", "sender_id", "session_id"} /\ Kept(query, a, k)
    BY <1>15, SessionTakes DEF Asked, Of, Kept, Given, Restrict, ++
  <2>3. /\ Api[MeantFor["session_queue_status"]].query = {"observer_id", "sender_id", "session_id"}
        /\ Api[MeantFor["session_queue_status"]].body = {}
    BY WorkspaceReads DEF Has, MeantFor
  <2>. HIDE DEF query
  <2>. QED BY <1>15, <2>1, <2>2, <2>3, QueryKept
<1>. QED BY <1>1, <1>2, <1>3, <1>4, <1>5, <1>6, <1>7, <1>8, <1>9, <1>10, <1>11, <1>12, <1>13,
         <1>14, <1>15

LEMMA ScopeCallsKept ==
  ASSUME NEW a
  PROVE  /\ Asked("create", a) => AllKept("create", a, {"of"})
         /\ Asked("scope_representation", a) => AllKept("scope_representation", a, {"of"})
         /\ Asked("query", a) => AllKept("query", a, {"of", "filters"})
         /\ Asked("delete_conclusion", a) => AllKept("delete_conclusion", a, {"of"})
<1>1. ASSUME Asked("create", a) PROVE AllKept("create", a, {"of"})
  <2> DEFINE found == ConclusionOf(a)
  <2>1. Found(MeantFor["create"], RequestOf("create", a).body) = found
    BY <1>1, EnclosedBody
  <2>2. \A k \in DOMAIN a \ {"of"} :
          /\ k \in {"content", "observer_id", "observed_id", "session_id"}
          /\ Kept(found, a, k)
    BY <1>1, ScopeTakes DEF Asked, Of, Kept, Given, Restrict, ++, ConclusionOf
  <2>3. /\ Api[MeantFor["create"]].query = {}
        /\ Api[MeantFor["create"]].body = {"content", "observer_id", "observed_id", "session_id"}
    BY WorkspaceReads DEF Has, MeantFor
  <2>. HIDE DEF found
  <2>. QED BY <1>1, <2>1, <2>2, <2>3, EnclosedKept
<1>2. ASSUME Asked("scope_representation", a) PROVE AllKept("scope_representation", a, {"of"})
  <2> DEFINE body == [target |-> Observed(a)] ++ Given(a, SearchParams)
  <2>1. Carries(RequestOf("scope_representation", a), NoKeys, body)
    BY ScopeCarries, Dispatches
  <2>2. \A k \in DOMAIN a \ {"of"} :
          /\ k \in SearchParams \cup {"session_id", "target"}
          /\ Kept(body, a, k)
    BY <1>2, ScopeTakes DEF Asked, Of, Kept, Given, Restrict, ++, ScopeRepresentationSetters,
       SearchParams
  <2>3. /\ Api[MeantFor["scope_representation"]].query = {}
        /\ Api[MeantFor["scope_representation"]].body = SearchParams \cup {"session_id", "target"}
    BY PeerReads DEF Has, MeantFor
  <2>. HIDE DEF body
  <2>. QED BY <1>2, <2>1, <2>2, <2>3, BodyKept DEF Enclosed
<1>3. ASSUME Asked("query", a) PROVE AllKept("query", a, {"of", "filters"})
  <2> DEFINE body == [top_k |-> Or(a, "top_k", 10), filters |-> Scoped(a)]
                     ++ Given(a, {"query", "distance"})
  <2>1. Carries(RequestOf("query", a), NoKeys, body)
    BY ScopeCarries, Dispatches
  <2>2. \A k \in DOMAIN a \ {"of", "filters"} :
          /\ k \in {"query", "top_k", "distance", "filters"}
          /\ Kept(body, a, k)
    BY <1>3, ScopeTakes DEF Asked, Of, Kept, Given, Restrict, ++, Or, QuerySetters
  <2>3. /\ Api[MeantFor["query"]].query = {}
        /\ Api[MeantFor["query"]].body = {"query", "top_k", "distance", "filters"}
    BY WorkspaceReads DEF Has, MeantFor
  <2>. HIDE DEF body
  <2>. QED BY <1>3, <2>1, <2>2, <2>3, BodyKept DEF Enclosed
<1>4. ASSUME Asked("delete_conclusion", a) PROVE AllKept("delete_conclusion", a, {"of"})
  <2>1. /\ Api[MeantFor["delete_conclusion"]].query = {}
        /\ Api[MeantFor["delete_conclusion"]].body = {}
    BY WorkspaceReads DEF Has, MeantFor
  <2>2. Kept(ReadOf("delete_conclusion", a), a, "conclusion_id")
    BY <1>4, <2>1, PathKept, CallNames
  <2>. QED BY <1>4, <2>2, ScopeTakes DEF Asked, Of, AllKept
<1>. QED BY <1>1, <1>2, <1>3, <1>4

\* A request that is not refused has passed the checks of its call.
LEMMA Passed ==
  ASSUME NEW ok, NEW r, ~When(ok, r).refused
  PROVE  ok
BY DEF When, Refusal

LEMMA ChatsKept ==
  ASSUME NEW o \in {"chat", "chat_stream"}, NEW a, Asked(o, a)
  PROVE  /\ AllKept(o, a, {})
         /\ Same(ReadOf(o, a), a, "session_id") /\ Same(ReadOf(o, a), a, "target")
<1> DEFINE e == Api[MeantFor[o]]
           r == RequestOf(o, a)
           body == IF o = "chat" THEN DialecticOptions(a) ELSE [stream |-> TRUE] ++ DialecticOptions(a)
<1>1. r.query = NoKeys /\ r.body = body
  <2>1. CASE o = "chat"
    <3>1. Carries(r, NoKeys, DialecticOptions(a))
      BY <2>1, PeerCarries, Dispatches
    <3>. QED BY <2>1, <3>1 DEF Asked, Carries
  <2>2. CASE o = "chat_stream"
    <3>1. Carries(r, NoKeys, [stream |-> TRUE] ++ DialecticOptions(a))
      BY <2>2, PeerCarries, Dispatches
    <3>. QED BY <2>2, <3>1 DEF Asked, Carries
  <2>. QED BY <2>1, <2>2
<1>2. /\ e.query = {}
      /\ e.body = {"query", "session_id", "target", "stream", "reasoning_level"}
      /\ e.defaults = [stream |-> FALSE, reasoning_level |-> "low"]
  BY PeerReads DEF Has, MeantFor
<1>3. /\ DOMAIN a \subseteq {"query", "session_id", "target", "stream", "reasoning_level"}
      /\ o = "chat_stream" => "stream" \notin DOMAIN a
  BY PeerTakes DEF Of, Asked, ChatOptions, ChatStreamSetters
<1>4. \A p \in DOMAIN PathIds(MeantFor[o], r) : p \in {"workspace_id", "peer_id"}
  BY OnlyIds DEF PeerOnlyCalls
<1>5. /\ \A k \in {"query", "session_id", "target"} : Same(body, a, k)
      /\ \/ Kept(body, a, "stream")
         \/ a["stream"] = FALSE /\ "stream" \notin DOMAIN body
      /\ \/ Kept(body, a, "reasoning_level")
         \/ a["reasoning_level"] = "low" /\ "reasoning_level" \notin DOMAIN body
  <2>1. "stream" \in DOMAIN a => a["stream"] \in BOOLEAN
    BY ValuesAssumption DEF Asked
  <2>2. CASE o = "chat"
    BY <2>1, <2>2, DialecticKept
  <2>3. CASE o = "chat_stream"
    <3>1. Kept(body, a, "stream")
      BY <1>3, <2>3 DEF Kept
    <3>2. \A k \in {"query", "session_id", "target"} : Same(body, a, k)
      BY <2>1, <2>3, DialecticKept, SameAfter
    <3>3. \/ Kept(body, a, "reasoning_level")
          \/ a["reasoning_level"] = "low" /\ "reasoning_level" \notin DOMAIN body
      BY <2>1, <2>3, DialecticKept DEF Kept, ++
    <3>. QED BY <3>1, <3>2, <3>3
  <2>. QED BY <2>2, <2>3
<1>. HIDE DEF body
<1>10. Found(MeantFor[o], r.body) = body
  BY <1>1, OpenBody DEF Enclosed
<1>6. \A k \in {"query", "session_id", "target"} : Same(ReadOf(o, a), a, k)
  BY <1>10, <1>2, <1>4, <1>5, SameRead DEF ReadOf
<1>7. Kept(ReadOf(o, a), a, "stream")
  <2>1. CASE Kept(body, a, "stream")
    BY <1>10, <1>2, <2>1, KeptRead DEF ReadOf
  <2>2. CASE a["stream"] = FALSE /\ "stream" \notin DOMAIN body
    <3>1. "stream" \in DOMAIN e.defaults /\ e.defaults["stream"] = FALSE
      BY <1>2
    <3>2. e.defaults["stream"] = a["stream"]
      BY <2>2, <3>1, Zenon
    <3>. QED BY <1>10, <1>1, <1>2, <1>4, <2>2, <3>1, <3>2, LeftOutKept DEF ReadOf
  <2>. QED BY <1>5, <2>1, <2>2
<1>8. Kept(ReadOf(o, a), a, "reasoning_level")
  <2>1. CASE Kept(body, a, "reasoning_level")
    BY <1>10, <1>2, <2>1, KeptRead DEF ReadOf
  <2>2. CASE a["reasoning_level"] = "low" /\ "reasoning_level" \notin DOMAIN body
    BY <1>10, <1>1, <1>2, <1>4, <2>2, LeftOutKept DEF ReadOf
  <2>. QED BY <1>5, <2>1, <2>2
<1>. QED BY <1>3, <1>6, <1>7, <1>8, SameIsKept DEF AllKept

\* The filters a scope of conclusions sends are the caller's, the pair of the scope, and,
\* for a list, the session; a filter of the caller is none of the others.
LEMMA ListRead ==
  ASSUME NEW a, Asked("list", a)
  PROVE  /\ AllKept("list", a, {"of", "session_id", "filters"})
         /\ "filters" \in DOMAIN ReadOf("list", a)
         /\ ReadOf("list", a)["filters"] = Given(a, {"session_id"}) ++ Scoped(a)
         /\ DOMAIN Or(a, "filters", NoKeys) \cap LIST_RESERVED_FILTERS = {}
<1> DEFINE body == Given(ListArgs(a), {"filters"})
<1>1. PageQuery(ListArgs(a)) = PageQuery(a)
  <2>1. ASSUME NEW k \in {"page", "size", "reverse"}, NEW default
        PROVE  Or(ListArgs(a), k, default) = Or(a, k, default)
    BY SameGiven, SameAfter, OrSame DEF ListArgs
  <2>2. /\ Or(ListArgs(a), "page", 1) = Or(a, "page", 1)
        /\ Or(ListArgs(a), "size", 50) = Or(a, "size", 50)
        /\ Or(ListArgs(a), "reverse", FALSE) = Or(a, "reverse", FALSE)
    BY <2>1
  <2>. QED BY <2>2, Zenon DEF PageQuery
<1>2. Carries(RequestOf("list", a), PageQuery(a), body)
  BY <1>1, ScopeCarries, Dispatches
<1>3. /\ Api[MeantFor["list"]].query = {"page", "size", "reverse"}
      /\ Api[MeantFor["list"]].body = {"filters"}
      /\ Api[MeantFor["list"]].defaults = [page |-> 1, size |-> 50, reverse |-> FALSE]
  BY WorkspaceReads DEF Has, MeantFor
<1>4. \A k \in {"page", "size", "reverse"} : Kept(ReadOf("list", a), a, k)
  BY <1>2, <1>3, PagesKept DEF Enclosed
<1>5. DOMAIN a \subseteq {"page", "size", "reverse", "of", "session_id", "filters"}
  BY ScopeTakes DEF Asked, Of, ListSetters
<1>6. "filters" \in DOMAIN body /\ body["filters"] = Given(a, {"session_id"}) ++ Scoped(a)
  BY DEF ListArgs, Given, Restrict, ++
<1>7. Found(MeantFor["list"], RequestOf("list", a).body) = body
  BY <1>2, OpenBody DEF Asked, Carries, Enclosed
<1>8. reject_reserved_filters(a, LIST_RESERVED_FILTERS)
  <2>1. ~Scope_list(a).refused
    BY Dispatches DEF Asked
  <2>. QED BY <2>1 DEF Scope_list, When, Refusal
<1>. HIDE DEF body
<1>9. "filters" \in DOMAIN ReadOf("list", a) /\ ReadOf("list", a)["filters"] = body["filters"]
  BY <1>3, <1>6, <1>7, KeyRead DEF ReadOf
<1>. QED BY <1>4, <1>5, <1>6, <1>8, <1>9 DEF AllKept, reject_reserved_filters

LEMMA QueryRead ==
  ASSUME NEW a, Asked("query", a)
  PROVE  /\ "filters" \in DOMAIN ReadOf("query", a)
         /\ ReadOf("query", a)["filters"] = Scoped(a)
         /\ DOMAIN Or(a, "filters", NoKeys) \cap QUERY_RESERVED_FILTERS = {}
<1> DEFINE body == [top_k |-> Or(a, "top_k", 10), filters |-> Scoped(a)]
                     ++ Given(a, {"query", "distance"})
<1>1. Carries(RequestOf("query", a), NoKeys, body)
  BY ScopeCarries, Dispatches
<1>2. /\ Api[MeantFor["query"]].query = {}
      /\ Api[MeantFor["query"]].body = {"query", "top_k", "distance", "filters"}
  BY WorkspaceReads DEF Has, MeantFor
<1>3. "filters" \in DOMAIN body /\ body["filters"] = Scoped(a)
  BY DEF ++
<1>4. Found(MeantFor["query"], RequestOf("query", a).body) = body
  BY <1>1, OpenBody DEF Asked, Carries, Enclosed
<1>5. reject_reserved_filters(a, QUERY_RESERVED_FILTERS)
  BY Dispatches, Passed DEF Asked, Scope_query
<1>. HIDE DEF body
<1>6. "filters" \in DOMAIN ReadOf("query", a) /\ ReadOf("query", a)["filters"] = body["filters"]
  BY <1>2, <1>3, <1>4, KeyRead DEF ReadOf
<1>. QED BY <1>3, <1>5, <1>6 DEF reject_reserved_filters

LEMMA FiltersRead ==
  ASSUME NEW o \in {"list", "query"}, NEW a, Asked(o, a), "filters" \in DOMAIN a,
         NEW i \in DOMAIN a["filters"]
  PROVE  LET read == ReadOf(o, a) IN
           /\ "filters" \in DOMAIN read /\ i \in DOMAIN read["filters"]
           /\ read["filters"][i] = a["filters"][i]
<1>1. Or(a, "filters", NoKeys) = a["filters"]
  BY DEF Or
<1>2. i \notin QUERY_RESERVED_FILTERS /\ (o = "list" => i \notin LIST_RESERVED_FILTERS)
  BY <1>1, ListRead, QueryRead DEF LIST_RESERVED_FILTERS, QUERY_RESERVED_FILTERS
<1>3. i \in DOMAIN Scoped(a) /\ Scoped(a)[i] = a["filters"][i]
  BY <1>1, <1>2 DEF Scoped, ++, QUERY_RESERVED_FILTERS
<1>4. CASE o = "query"
  BY <1>3, <1>4, QueryRead
<1>5. CASE o = "list"
  <2>1. i \notin DOMAIN Given(a, {"session_id"})
    BY <1>2, <1>5 DEF Given, Restrict, LIST_RESERVED_FILTERS
  <2>. QED BY <1>3, <1>5, <2>1, ListRead DEF ++
<1>. QED BY <1>4, <1>5

\* Of peers that are each given once, the map has them all.
LEMMA PeersOnce ==
  ASSUME NEW specs, DOMAIN specs = 1 .. Len(specs), ~Repeats(specs), NEW i \in DOMAIN specs
  PROVE  /\ LastOfEach(specs)[specs[i].id] = specs[i].config
         /\ normalize_peers(specs)[specs[i].id] = specs[i].config
<1> DEFINE p == specs[i].id
<1>1. \A j \in DOMAIN specs : specs[j].id = p => j = i
  BY DEF Repeats
<1>2. p \in {s.id : s \in Range(specs)}
  BY DEF Range
<1>3. LastOfEach(specs)[p] = specs[i].config
  <2> DEFINE Last1(l) == specs[l].id = p /\ \A j \in DOMAIN specs : specs[j].id = p => j <= l
             last == CHOOSE l \in DOMAIN specs : Last1(l)
  <2>1. i \in DOMAIN specs /\ Last1(i)
    BY <1>1
  <2>2. last \in DOMAIN specs /\ Last1(last)
    <3>. HIDE DEF Last1
    <3>. QED BY <2>1
  <2>3. last = i
    BY <1>1, <2>2
  <2>4. LastOfEach(specs)[p] = specs[last].config
    BY <1>2 DEF LastOfEach
  <2>. QED BY <2>3, <2>4
<1>4. normalize_peers(specs)[p] = specs[i].config
  <2> DEFINE spec == CHOOSE s \in Range(specs) : s.id = p
  <2>1. spec \in Range(specs) /\ spec.id = p
    BY DEF Range
  <2>2. PICK j \in DOMAIN specs : spec = specs[j]
    BY <2>1 DEF Range
  <2>3. spec = specs[i]
    BY <1>1, <2>1, <2>2
  <2>4. normalize_peers(specs)[p] = spec.config
    BY <1>2 DEF normalize_peers
  <2>. QED BY <2>3, <2>4
<1>. QED BY <1>3, <1>4

LEMMA PeersRead ==
  ASSUME NEW o \in {"session", "add_peers", "set_peers"}, NEW a, Asked(o, a),
         "peers" \in DOMAIN a, ~Repeats(a["peers"])
  PROVE  LET read == ReadOf(o, a) IN
           /\ "peers" \in DOMAIN read
           /\ \A i \in DOMAIN a["peers"] :
                read["peers"][a["peers"][i].id] = a["peers"][i].config
<1> DEFINE r == RequestOf(o, a)
           peers == a["peers"]
           found == Found(MeantFor[o], r.body)
<1>1. DOMAIN peers = 1 .. Len(peers)
  BY ValuesAssumption DEF Asked
<1>2. "peers" \in DOMAIN found /\ found["peers"] \in {LastOfEach(peers), normalize_peers(peers)}
  <2>1. CASE o = "session"
    <3> DEFINE body == (IF "peers" \in DOMAIN a THEN [peers |-> LastOfEach(a["peers"])] ELSE NoKeys)
                         ++ Given(a, {"id", "metadata", "configuration"})
    <3>1. Carries(r, NoKeys, body)
      BY <2>1, ClientCarries, Dispatches
    <3>2. "peers" \in DOMAIN body /\ body["peers"] = LastOfEach(peers)
      BY DEF ++
    <3>3. found = r.body
      BY <2>1, OpenBody DEF Enclosed
    <3>. HIDE DEF body, found
    <3>. QED BY <3>1, <3>2, <3>3 DEF Asked, Carries
  <2>2. CASE o \in {"add_peers", "set_peers"}
    <3>1. found = [peers |-> normalize_peers(peers)]
      BY <2>2, EnclosedBody
    <3>. HIDE DEF found
    <3>. QED BY <3>1
  <2>. QED BY <2>1, <2>2
<1>3. "peers" \in Api[MeantFor[o]].body /\ "peers" \notin Api[MeantFor[o]].query
  BY SessionReads DEF Has, MeantFor
<1>4. "peers" \in DOMAIN ReadOf(o, a) /\ ReadOf(o, a)["peers"] = found["peers"]
  BY <1>2, <1>3, KeyRead DEF ReadOf
<1>. QED BY <1>1, <1>2, <1>4, PeersOnce

LEMMA PeersNotRepeated ==
  ASSUME NEW o \in {"add_peers", "set_peers"}, NEW a, Asked(o, a)
  PROVE  ~Repeats(a["peers"])
<1>1. CASE o = "add_peers"
  <2>1. ~Session_add_peers(a).refused
    BY <1>1, Dispatches DEF Asked
  <2>. QED BY <2>1 DEF Session_add_peers, When, Refusal
<1>2. CASE o = "set_peers"
  <2>1. ~Session_set_peers(a).refused
    BY <1>2, Dispatches DEF Asked
  <2>. QED BY <2>1 DEF Session_set_peers, When, Refusal
<1>. QED BY <1>1, <1>2

LEMMA PeersTaken ==
  ASSUME NEW o, NEW a, Asked(o, a), "peers" \in DOMAIN a
  PROVE  o \in {"session", "add_peers", "set_peers"}
<1>1. \A c \in DOMAIN ClientCalls : "peers" \in ClientCalls[c].may => c = "session"
  BY DEF ClientCalls, Takes, Paging
<1>2. \A c \in DOMAIN PeerCalls : "peers" \notin PeerCalls[c].may
  BY DEF PeerCalls, Takes, Paging, ChatOptions, ChatStreamSetters, RepresentationSetters,
         ContextSetters, PeerContextOptions, MessageSetters, SearchParams
<1>3. \A c \in DOMAIN SessionCalls :
        "peers" \in SessionCalls[c].may => c \in {"add_peers", "set_peers"}
  BY DEF SessionCalls, Takes, UploadFileSetters, SessionRepresentationSetters,
         SessionContextSetters, SearchParams
<1>4. \A c \in DOMAIN ScopeCalls : "peers" \notin ScopeCalls[c].may
  BY DEF ScopeCalls, Takes, ScopeRepresentationSetters, ListSetters, QuerySetters, SearchParams
<1>. QED BY <1>1, <1>2, <1>3, <1>4, CallParts DEF Asked

\* What of a call is not read under its own name.
Elsewhere(o) ==
  CASE o \in {"session", "add_peers", "set_peers"} -> {"peers"}
    [] o = "context" -> {"summary", "limit_to_session"}
    [] o = "list"    -> {"of", "session_id", "filters"}
    [] o = "query"   -> {"of", "filters"}
    [] OTHER         -> {"of"}

LEMMA CallsKept ==
  ASSUME NEW o, NEW a, Asked(o, a)
  PROVE  AllKept(o, a, Elsewhere(o))
<1>1. CASE o \in DOMAIN ClientCalls
  BY <1>1, ClientCallsKept DEF ClientCalls, Elsewhere, AllKept
<1>2. CASE o \in DOMAIN PeerCalls
  BY <1>2, PeerCallsKept, ChatsKept DEF PeerCalls, Elsewhere, AllKept
<1>3. CASE o \in DOMAIN SessionCalls
  BY <1>3, SessionCallsKept DEF SessionCalls, Elsewhere, AllKept
<1>4. CASE o \in DOMAIN ScopeCalls
  BY <1>4, ScopeCallsKept, ListRead DEF ScopeCalls, Elsewhere, AllKept
<1>. QED BY <1>1, <1>2, <1>3, <1>4, CallParts DEF Asked

LEMMA CallAsked ==
  ASSUME TypeOK, CallInv, Under
  PROVE  Asked(op, args) /\ Last = RequestOf(op, args) /\ Reads(MeantFor[op], Last) = ReadOf(op, args)
BY LastIsTheCall DEF Asked, ReadOf

\* Whatever arguments of whatever values a caller sets, in whatever order: the endpoint
\* reads every one of them with the value it had, but for those the code documents
\* (peer.rs:1241-1255) and the peers given twice (client.rs:526).
THEOREM ArgumentsReachHolds == Spec => []ArgumentsReach
<1>1. TypeOK /\ CallInv => ArgumentsReach
  <2> SUFFICES ASSUME TypeOK, CallInv, Under, NEW k \in DOMAIN args \ {"of"},
                      ~(op = "context" /\ k \in {"summary", "limit_to_session"}),
                      ~(op = "session" /\ k = "peers" /\ Repeats(args[k])),
                      ~(op = "list" /\ k = "session_id")
               PROVE  LET read == Reads(MeantFor[op], Last) IN
                        /\ k \in DOMAIN read
                        /\ CASE k = "filters" -> \A i \in DOMAIN args[k] :
                                                   i \in DOMAIN read[k] /\ read[k][i] = args[k][i]
                             [] k = "peers"   -> \A i \in DOMAIN args[k] :
                                                   read[k][args[k][i].id] = args[k][i].config
                             [] OTHER         -> read[k] = args[k]
    BY Zenon DEF ArgumentsReach
  <2> DEFINE read == ReadOf(op, args)
  <2>1. Asked(op, args) /\ Reads(MeantFor[op], Last) = read
    BY CallAsked
  <2>2. CASE k \notin Elsewhere(op)
    <3>1. k \in DOMAIN read /\ read[k] = args[k]
      BY <2>1, <2>2, CallsKept DEF AllKept, Kept
    <3>2. k # "peers"
      BY <2>1, <2>2, PeersTaken DEF Elsewhere
    <3>. QED BY <2>1, <3>1, <3>2
  <2>3. CASE k = "peers"
    <3>1. op \in {"session", "add_peers", "set_peers"}
      BY <2>1, <2>3, PeersTaken
    <3>2. ~Repeats(args["peers"])
      BY <2>1, <2>3, <3>1, PeersNotRepeated
    <3>3. \A i \in DOMAIN args["peers"] :
            read["peers"][args["peers"][i].id] = args["peers"][i].config
      BY <2>1, <2>3, <3>1, <3>2, PeersRead
    <3>4. "peers" \in DOMAIN read
      BY <2>1, <2>3, <3>1, <3>2, PeersRead
    <3>. QED BY <2>1, <2>3, <3>3, <3>4
  <2>4. CASE k = "filters" /\ k \in Elsewhere(op)
    <3>1. op \in {"list", "query"}
      BY <2>4 DEF Elsewhere
    <3>2. \A i \in DOMAIN args["filters"] :
            i \in DOMAIN read["filters"] /\ read["filters"][i] = args["filters"][i]
      BY <2>1, <2>4, <3>1, FiltersRead
    <3>3. "filters" \in DOMAIN read
      BY <2>1, <3>1, ListRead, QueryRead
    <3>. QED BY <2>1, <2>4, <3>2, <3>3
  <2>. QED BY <2>2, <2>3, <2>4 DEF Elsewhere
<1>. QED BY TypeCorrect, Calling, <1>1, PTL

-----------------------------------------------------------------------------
(* Whose view of whom a call is answered with.                              *)

Is(read, k, v) == k \in DOMAIN read /\ read[k] = v

LEMMA FromBody ==
  ASSUME NEW o, NEW a, Asked(o, a), NEW query, NEW body, Carries(RequestOf(o, a), query, body),
         NEW k, k \notin Api[MeantFor[o]].query, k \in Api[MeantFor[o]].body, k \in DOMAIN body,
         o \notin Enclosed
  PROVE  Is(ReadOf(o, a), k, body[k])
<1>1. Found(MeantFor[o], RequestOf(o, a).body) = body
  BY OpenBody DEF Asked, Carries
<1>. QED BY <1>1, KeyRead DEF ReadOf, Is

LEMMA PathIs ==
  ASSUME NEW o, NEW a, Asked(o, a), NEW p, Names(o, p),
         p \notin Api[MeantFor[o]].query, p \notin Api[MeantFor[o]].body
  PROVE  Is(ReadOf(o, a), p, IdMeant(a, p))
<1>1. /\ p \in DOMAIN PathIds(MeantFor[o], RequestOf(o, a))
      /\ PathIds(MeantFor[o], RequestOf(o, a))[p] = IdMeant(a, p)
  BY CallIds
<1>. QED BY <1>1, KeyRead DEF ReadOf, Is

PeerViews == {"chat", "chat_stream", "representation", "context", "context_with_options",
              "get_card", "set_card"}

\* What the endpoints of a peer read from its own calls.
LEMMA PeerViewRead ==
  ASSUME NEW o \in PeerViews, NEW a, Asked(o, a)
  PROVE  /\ MeantFor[o] \in {"peer_chat", "peer_representation", "peer_context", "get_card",
                             "set_card"}
         /\ Is(ReadOf(o, a), "peer_id", Peer)
         /\ Same(ReadOf(o, a), a, "target") /\ Same(ReadOf(o, a), a, "session_id")
<1> DEFINE e == MeantFor[o]
           r == RequestOf(o, a)
<1>0. e \in {"peer_chat", "peer_representation", "peer_context", "get_card", "set_card"}
  BY DEF PeerViews, MeantFor
<1>1. o \in PeerOnlyCalls /\ o \notin {"upload_file", "get_peer_configuration",
                                       "set_peer_configuration", "session_representation"}
  BY DEF PeerViews, PeerOnlyCalls
<1>2. "peer_id" \notin DOMAIN a
  BY <1>1, IdArguments DEF Asked, TakesIds
<1>3. /\ "target" \notin DOMAIN PathIds(e, r)
      /\ "session_id" \notin DOMAIN PathIds(e, r)
  BY <1>1, OnlyIds
<1>4. "peer_id" \notin Api[e].query /\ "peer_id" \notin Api[e].body
  BY <1>0, PeerReads DEF Has, SearchParams
<1>5. Is(ReadOf(o, a), "peer_id", Peer)
  BY <1>1, <1>2, <1>4, PathIs, CallNames DEF IdMeant
<1>6. CASE o \in {"chat", "chat_stream"}
  BY <1>0, <1>5, <1>6, ChatsKept
<1>7. CASE o = "representation"
  <2>1. Carries(r, NoKeys, Given(a, SearchParams \cup {"session_id", "target"}))
    BY <1>7, PeerCarries, Dispatches
  <2>2. /\ Api[e].query = {} /\ Api[e].body = SearchParams \cup {"session_id", "target"}
        /\ Api[e].defaults = NoKeys
    BY <1>7, PeerReads DEF Has, MeantFor
  <2>3. Found(e, r.body) = r.body
    BY <1>7, OpenBody DEF Enclosed
  <2>. QED BY <1>0, <1>3, <1>5, <2>1, <2>2, <2>3, SameGiven, SameRead, NoKeysHasNone
       DEF Asked, Carries, ReadOf
<1>8. CASE o \in {"context", "context_with_options"}
  <2> DEFINE keys  == SearchParams \cup {"target", "summary", "limit_to_session"}
             query == IF o = "context" THEN Given(a, keys)
                      ELSE Given(Given(a, SearchParams \cup {"target"}), keys)
  <2>1. Carries(r, query, NoKeys)
    <3>1. CASE o = "context"
      <4>1. r = Peer_context(a) /\ query = Given(a, keys)
        BY <3>1, Dispatches
      <4>. QED BY <4>1, PeerCarries
    <3>2. CASE o = "context_with_options"
      <4>1. /\ r = Peer_context_with_options(a)
            /\ query = Given(Given(a, SearchParams \cup {"target"}), keys)
        BY <3>2, Dispatches
      <4>. QED BY <4>1, PeerCarries
    <3>. QED BY <1>8, <3>1, <3>2
  <2>2. /\ Api[e].query = SearchParams \cup {"target"} /\ Api[e].body = {}
        /\ Api[e].defaults = NoKeys
    BY <1>8, PeerReads DEF Has, MeantFor
  <2>3. Same(query, a, "target")
    BY DEF Same, Given, Restrict
  <2>4. "session_id" \notin DOMAIN a /\ "session_id" \notin SearchParams
    BY <1>8, PeerTakes DEF Asked, Of, ContextSetters, PeerContextOptions, SearchParams
  <2>. HIDE DEF query
  <2>. QED BY <1>0, <1>3, <1>5, <2>1, <2>2, <2>3, <2>4, SameRead, NoKeysHasNone
       DEF Asked, Carries, ReadOf
<1>9. CASE o \in {"get_card", "set_card"}
  <2>1. r.query = Given(a, {"target"})
    <3>1. CASE o = "get_card"
      <4>1. Carries(r, Given(a, {"target"}), NoKeys)
        BY <3>1, PeerCarries, Dispatches
      <4>. QED BY <4>1 DEF Asked, Carries
    <3>2. CASE o = "set_card"
      <4>1. Carries(r, Given(a, {"target"}), Given(a, {"peer_card"}))
        BY <3>2, PeerCarries, Dispatches
      <4>. QED BY <4>1 DEF Asked, Carries
    <3>. QED BY <1>9, <3>1, <3>2
  <2>2. /\ Api[e].query = {"target"} /\ Api[e].body \in {{}, {"peer_card"}}
        /\ Api[e].defaults = NoKeys
    BY <1>9, PeerReads DEF Has, MeantFor
  <2>3. "session_id" \notin DOMAIN a
    BY <1>9, PeerTakes DEF Asked, Of
  <2>. QED BY <1>0, <1>3, <1>5, <2>1, <2>2, <2>3, SameGiven, SameRead, NoKeysHasNone DEF ReadOf
<1>. QED BY <1>6, <1>7, <1>8, <1>9 DEF PeerViews

LEMMA OtherViewsRead ==
  ASSUME NEW a
  PROVE  /\ Asked("session_representation", a) =>
              LET read == ReadOf("session_representation", a) IN
                /\ Is(read, "peer_id", a["peer_id"]) /\ Same(read, a, "target")
                /\ Is(read, "session_id", Session)
         /\ Asked("scope_representation", a) =>
              LET read == ReadOf("scope_representation", a) IN
                /\ Is(read, "peer_id", Peer) /\ Is(read, "target", Observed(a))
                /\ "session_id" \notin DOMAIN read
         /\ Asked("session_context", a) =>
              LET read == ReadOf("session_context", a) IN
                /\ Same(read, a, "peer_perspective") /\ Same(read, a, "peer_target")
                /\ Is(read, "session_id", Session)
<1>1. ASSUME Asked("session_representation", a)
      PROVE  LET read == ReadOf("session_representation", a) IN
               /\ Is(read, "peer_id", a["peer_id"]) /\ Same(read, a, "target")
               /\ Is(read, "session_id", Session)
  <2> DEFINE o == "session_representation"
             body == [session_id |-> Session] ++ Given(a, SearchParams \cup {"target"})
  <2>1. Carries(RequestOf(o, a), NoKeys, body)
    BY SessionCarries, Dispatches
  <2>2. /\ Api[MeantFor[o]].query = {} /\ Api[MeantFor[o]].defaults = NoKeys
        /\ Api[MeantFor[o]].body = SearchParams \cup {"session_id", "target"}
    BY PeerReads DEF Has, MeantFor
  <2>3. "peer_id" \in DOMAIN a
    BY <1>1, SessionTakes DEF Asked, Of
  <2>4. Is(ReadOf(o, a), "peer_id", a["peer_id"])
    BY <1>1, <2>2, <2>3, PathIs, CallNames DEF IdMeant, SearchParams
  <2>5. Same(body, a, "target") /\ "session_id" \in DOMAIN body /\ body["session_id"] = Session
    BY DEF Same, Given, Restrict, ++
  <2>6. \A p \in DOMAIN PathIds(MeantFor[o], RequestOf(o, a)) : p \in {"workspace_id", "peer_id"}
    BY <1>1, OnlyIds
  <2>. HIDE DEF body
  <2>7. Is(ReadOf(o, a), "session_id", Session)
    BY <1>1, <2>1, <2>2, <2>5, FromBody DEF Enclosed
  <2>9. Found(MeantFor[o], RequestOf(o, a).body) = body
    BY <1>1, <2>1, OpenBody DEF Asked, Carries, Enclosed
  <2>8. Same(ReadOf(o, a), a, "target")
    BY <2>2, <2>5, <2>6, <2>9, SameRead, NoKeysHasNone DEF ReadOf
  <2>. QED BY <2>4, <2>7, <2>8
<1>2. ASSUME Asked("scope_representation", a)
      PROVE  LET read == ReadOf("scope_representation", a) IN
               /\ Is(read, "peer_id", Peer) /\ Is(read, "target", Observed(a))
               /\ "session_id" \notin DOMAIN read
  <2> DEFINE o == "scope_representation"
             body == [target |-> Observed(a)] ++ Given(a, SearchParams)
  <2>1. Carries(RequestOf(o, a), NoKeys, body)
    BY ScopeCarries, Dispatches
  <2>2. /\ Api[MeantFor[o]].query = {} /\ Api[MeantFor[o]].defaults = NoKeys
        /\ Api[MeantFor[o]].body = SearchParams \cup {"session_id", "target"}
    BY PeerReads DEF Has, MeantFor
  <2>3. "peer_id" \notin DOMAIN a /\ o \in PeerOnlyCalls
    BY <1>2, ScopeTakes DEF Asked, Of, ScopeRepresentationSetters, SearchParams, PeerOnlyCalls
  <2>4. Is(ReadOf(o, a), "peer_id", Peer)
    BY <1>2, <2>2, <2>3, PathIs, CallNames DEF IdMeant, SearchParams
  <2>5. "target" \in DOMAIN body /\ body["target"] = Observed(a) /\ "session_id" \notin DOMAIN body
    BY DEF Given, Restrict, ++, SearchParams
  <2>6. \A p \in DOMAIN PathIds(MeantFor[o], RequestOf(o, a)) : p \in {"workspace_id", "peer_id"}
    BY <1>2, <2>3, OnlyIds
  <2>. HIDE DEF body
  <2>7. Is(ReadOf(o, a), "target", Observed(a))
    BY <1>2, <2>1, <2>2, <2>5, FromBody DEF Enclosed
  <2>9. Found(MeantFor[o], RequestOf(o, a).body) = body
    BY <1>2, <2>1, OpenBody DEF Asked, Carries, Enclosed
  <2>8. "session_id" \notin DOMAIN ReadOf(o, a)
    BY <2>2, <2>5, <2>6, <2>9, KeyRead, NoKeysHasNone DEF ReadOf
  <2>. QED BY <2>4, <2>7, <2>8
<1>3. ASSUME Asked("session_context", a)
      PROVE  LET read == ReadOf("session_context", a) IN
               /\ Same(read, a, "peer_perspective") /\ Same(read, a, "peer_target")
               /\ Is(read, "session_id", Session)
  <2> DEFINE o == "session_context"
             query == to_query_params(a)
  <2>1. Carries(RequestOf(o, a), query, NoKeys)
    BY SessionCarries, Dispatches
  <2>2. /\ Api[MeantFor[o]].body = {}
        /\ DOMAIN Api[MeantFor[o]].defaults = {"summary", "limit_to_session"}
        /\ Api[MeantFor[o]].query = SearchParams \cup {"summary", "limit_to_session", "tokens",
                                                       "peer_target", "peer_perspective"}
    BY SessionReads DEF Has, MeantFor
  <2>3. Is(ReadOf(o, a), "session_id", Session)
    BY <1>3, <2>2, PathIs, CallNames DEF IdMeant, SearchParams
  <2>4. \A k \in {"peer_target", "peer_perspective"} : Same(query, a, k)
    BY SameGiven, SameAfter DEF to_query_params
  <2>5. \A p \in DOMAIN PathIds(MeantFor[o], RequestOf(o, a)) : p \in {"workspace_id", "session_id"}
    BY <1>3, OnlyIds DEF SessionOnlyCalls
  <2>. HIDE DEF query
  <2>6. \A k \in {"peer_target", "peer_perspective"} : Same(ReadOf(o, a), a, k)
    BY <1>3, <2>1, <2>2, <2>4, <2>5, SameRead DEF Asked, Carries, ReadOf
  <2>. QED BY <2>3, <2>6
<1>. QED BY <1>1, <1>2, <1>3

LEMMA BodyViewsRead ==
  ASSUME NEW a
  PROVE  /\ Asked("create", a) =>
              LET read == ReadOf("create", a) IN
                /\ Is(read, "observer_id", Peer) /\ Is(read, "observed_id", Observed(a))
                /\ Same(read, a, "session_id")
         /\ Asked("schedule_dream", a) =>
              LET read == ReadOf("schedule_dream", a) IN
                /\ Is(read, "observer", a["observer"])
                /\ Is(read, "observed", Or(a, "observed", a["observer"]))
                /\ Same(read, a, "session_id")
<1>1. ASSUME Asked("create", a)
      PROVE  LET read == ReadOf("create", a) IN
               /\ Is(read, "observer_id", Peer) /\ Is(read, "observed_id", Observed(a))
               /\ Same(read, a, "session_id")
  <2> DEFINE o == "create"
             found == ConclusionOf(a)
  <2>1. Found(MeantFor[o], RequestOf(o, a).body) = found
    BY <1>1, EnclosedBody
  <2>2. /\ Api[MeantFor[o]].query = {} /\ Api[MeantFor[o]].defaults = NoKeys
        /\ Api[MeantFor[o]].body = {"content", "observer_id", "observed_id", "session_id"}
    BY WorkspaceReads DEF Has, MeantFor
  <2>3. /\ "observer_id" \in DOMAIN found /\ found["observer_id"] = Peer
        /\ "observed_id" \in DOMAIN found /\ found["observed_id"] = Observed(a)
        /\ Same(found, a, "session_id")
    BY DEF ConclusionOf, Same, Given, Restrict, ++
  <2>4. \A p \in DOMAIN PathIds(MeantFor[o], RequestOf(o, a)) : p = "workspace_id"
    BY <1>1, OnlyIds DEF WorkspaceCalls
  <2>. HIDE DEF found
  <2>5. Is(ReadOf(o, a), "observer_id", Peer) /\ Is(ReadOf(o, a), "observed_id", Observed(a))
    BY <2>1, <2>2, <2>3, KeyRead DEF ReadOf, Is
  <2>6. Same(ReadOf(o, a), a, "session_id")
    BY <2>1, <2>2, <2>3, <2>4, SameRead, NoKeysHasNone DEF ReadOf
  <2>. QED BY <2>5, <2>6
<1>2. ASSUME Asked("schedule_dream", a)
      PROVE  LET read == ReadOf("schedule_dream", a) IN
               /\ Is(read, "observer", a["observer"])
               /\ Is(read, "observed", Or(a, "observed", a["observer"]))
               /\ Same(read, a, "session_id")
  <2> DEFINE o == "schedule_dream"
             other == Or(a, "observed", a["observer"])
             body == [dream_type |-> "omni", observer |-> a["observer"], observed |-> other]
                       ++ Given(a, {"session_id"})
  <2>1. Carries(RequestOf(o, a), NoKeys, body)
    BY ClientCarries, Dispatches
  <2>2. /\ Api[MeantFor[o]].query = {} /\ Api[MeantFor[o]].defaults = NoKeys
        /\ Api[MeantFor[o]].body = {"observer", "observed", "dream_type", "session_id"}
    BY WorkspaceReads DEF Has, MeantFor
  <2>3. /\ "observer" \in DOMAIN body /\ body["observer"] = a["observer"]
        /\ "observed" \in DOMAIN body /\ body["observed"] = other
        /\ Same(body, a, "session_id")
    BY DEF Same, Given, Restrict, ++
  <2>4. \A p \in DOMAIN PathIds(MeantFor[o], RequestOf(o, a)) : p = "workspace_id"
    BY <1>2, OnlyIds DEF WorkspaceCalls
  <2>. HIDE DEF body, other
  <2>5. Is(ReadOf(o, a), "observer", a["observer"]) /\ Is(ReadOf(o, a), "observed", other)
    BY <1>2, <2>1, <2>2, <2>3, FromBody DEF Enclosed
  <2>9. Found(MeantFor[o], RequestOf(o, a).body) = body
    BY <1>2, <2>1, OpenBody DEF Asked, Carries, Enclosed
  <2>6. Same(ReadOf(o, a), a, "session_id")
    BY <2>2, <2>3, <2>4, <2>9, SameRead, NoKeysHasNone DEF ReadOf
  <2>. QED BY <2>5, <2>6 DEF other
<1>. QED BY <1>1, <1>2

LEMMA OrIs ==
  ASSUME NEW read, NEW k, NEW v, NEW default, Is(read, k, v)
  PROVE  Or(read, k, default) = v
BY DEF Is, Or

\* The pair and the session a filter of a scope names.
LEMMA FiltersScope ==
  ASSUME NEW a
  PROVE  /\ Scoped(a)["observer_id"] = Peer /\ Scoped(a)["observed_id"] = Observed(a)
         /\ Same(Scoped(a), Or(a, "filters", NoKeys), "session_id")
         /\ LET f == Given(a, {"session_id"}) ++ Scoped(a) IN
              /\ f["observer_id"] = Peer /\ f["observed_id"] = Observed(a)
              /\ "session_id" \notin DOMAIN Or(a, "filters", NoKeys) => Same(f, a, "session_id")
<1> DEFINE given == Or(a, "filters", NoKeys)
<1>1. /\ Scoped(a)["observer_id"] = Peer /\ Scoped(a)["observed_id"] = Observed(a)
      /\ {"observer_id", "observed_id"} \subseteq DOMAIN Scoped(a)
      /\ Same(Scoped(a), given, "session_id")
  <2>. HIDE DEF given
  <2>. QED BY DEF Scoped, ++, Same, given
<1>. HIDE DEF given
<1>2. LET f == Given(a, {"session_id"}) ++ Scoped(a) IN
        /\ f["observer_id"] = Peer /\ f["observed_id"] = Observed(a)
        /\ "session_id" \notin DOMAIN given => Same(f, a, "session_id")
  BY <1>1 DEF Given, Restrict, ++, Same
<1>. QED BY <1>1, <1>2 DEF given

\* The calls that ask about somebody's view of somebody.
LEMMA Viewing ==
  ASSUME NEW o \in DOMAIN AsyncCalls, MeantFor[o] \in HasScope
  PROVE  o \in PeerViews \cup {"session_representation", "scope_representation",
                               "session_context", "create", "schedule_dream", "list", "query"}
<1>1. CASE o \in DOMAIN ClientCalls
  BY <1>1 DEF ClientCalls, MeantFor, HasScope
<1>2. CASE o \in DOMAIN PeerCalls
  BY <1>2 DEF PeerCalls, MeantFor, HasScope, PeerViews
<1>3. CASE o \in DOMAIN SessionCalls
  BY <1>3 DEF SessionCalls, MeantFor, HasScope
<1>4. CASE o \in DOMAIN ScopeCalls
  BY <1>4 DEF ScopeCalls, MeantFor, HasScope
<1>. QED BY <1>1, <1>2, <1>3, <1>4, CallParts

\* By whichever entry point a question is asked: the server answers about the observer,
\* the observed and the session the caller has in mind (conclusion.rs:277, peer.rs, session.rs).
THEOREM ScopeKeptHolds == Spec => []ScopeKept
<1>1. TypeOK /\ CallInv => ScopeKept
  <2> SUFFICES ASSUME TypeOK, CallInv, Under, MeantFor[op] \in HasScope
               PROVE  AnswersAbout(MeantFor[op], Last) = AsksAbout
    BY DEF ScopeKept
  <2> DEFINE read == ReadOf(op, args)
             get(k) == Or(read, k, <<>>)
             session == Or(args, "session_id", <<>>)
  <2>1. Asked(op, args) /\ Reads(MeantFor[op], Last) = read
    BY CallAsked
  <2>2. op \in PeerViews \cup {"session_representation", "scope_representation",
                               "session_context", "create", "schedule_dream", "list", "query"}
    BY <2>1, Viewing DEF Asked
  <2>. HIDE DEF read
  <2>3. MeantFor[op] \in {"peer_chat", "peer_representation", "peer_context", "get_card", "set_card"}
          => AnswersAbout(MeantFor[op], Last)
               = Scope(get("peer_id"), Or(read, "target", get("peer_id")), get("session_id"))
    BY <2>1, Zenon DEF AnswersAbout
  <2>4. CASE op \in PeerViews
    <3>1. /\ MeantFor[op] \in {"peer_chat", "peer_representation", "peer_context", "get_card",
                               "set_card"}
          /\ Is(read, "peer_id", Peer) /\ Same(read, args, "target") /\ Same(read, args, "session_id")
      BY <2>1, <2>4, PeerViewRead DEF read
    <3>2. AsksAbout = Scope(Peer, Or(args, "target", Peer), session)
      BY <2>4 DEF AsksAbout, PeerViews
    <3>. QED BY <2>3, <3>1, <3>2, OrIs, OrSame
  <2>5. CASE op = "session_representation"
    <3>1. /\ Is(read, "peer_id", args["peer_id"]) /\ Same(read, args, "target")
          /\ Is(read, "session_id", Session)
      BY <2>1, <2>5, OtherViewsRead DEF read
    <3>2. AsksAbout = Scope(args["peer_id"], Or(args, "target", args["peer_id"]), Session)
      BY <2>5 DEF AsksAbout
    <3>3. MeantFor[op] = "peer_representation"
      BY <2>5 DEF MeantFor
    <3>. QED BY <2>3, <3>1, <3>2, <3>3, OrIs, OrSame
  <2>6. CASE op = "scope_representation"
    <3>1. /\ Is(read, "peer_id", Peer) /\ Is(read, "target", Observed(args))
          /\ "session_id" \notin DOMAIN read
      BY <2>1, <2>6, OtherViewsRead DEF read
    <3>2. AsksAbout = Scope(Peer, Observed(args), <<>>)
      BY <2>6 DEF AsksAbout, Observed
    <3>3. MeantFor[op] = "peer_representation"
      BY <2>6 DEF MeantFor
    <3>4. get("session_id") = <<>>
      BY <3>1 DEF Or
    <3>. QED BY <2>3, <3>1, <3>2, <3>3, <3>4, OrIs
  <2>7. CASE op = "session_context"
    <3>1. /\ Same(read, args, "peer_perspective") /\ Same(read, args, "peer_target")
          /\ Is(read, "session_id", Session)
      BY <2>1, <2>7, OtherViewsRead DEF read
    <3>2. AsksAbout = Scope(Or(args, "peer_perspective", <<>>), Or(args, "peer_target", <<>>), Session)
      BY <2>7 DEF AsksAbout
    <3>3. MeantFor[op] = "session_context"
      BY <2>7 DEF MeantFor
    <3>4. AnswersAbout(MeantFor[op], Last)
            = Scope(get("peer_perspective"), get("peer_target"), get("session_id"))
      BY <2>1, <3>3 DEF AnswersAbout
    <3>. QED BY <3>1, <3>2, <3>4, OrIs, OrSame
  <2>8. CASE op = "create"
    <3>1. /\ Is(read, "observer_id", Peer) /\ Is(read, "observed_id", Observed(args))
          /\ Same(read, args, "session_id")
      BY <2>1, <2>8, BodyViewsRead DEF read
    <3>2. AsksAbout = Scope(Peer, Observed(args), session)
      BY <2>8 DEF AsksAbout, Observed
    <3>3. MeantFor[op] = "create_conclusions"
      BY <2>8 DEF MeantFor
    <3>4. AnswersAbout(MeantFor[op], Last)
            = Scope(get("observer_id"), get("observed_id"), get("session_id"))
      BY <2>1, <3>3 DEF AnswersAbout
    <3>. QED BY <3>1, <3>2, <3>4, OrIs, OrSame
  <2>9. CASE op = "schedule_dream"
    <3> DEFINE other == Or(args, "observed", args["observer"])
    <3>1. /\ Is(read, "observer", args["observer"]) /\ Is(read, "observed", other)
          /\ Same(read, args, "session_id")
      BY <2>1, <2>9, BodyViewsRead DEF read
    <3>2. AsksAbout = Scope(args["observer"], other, session)
      BY <2>9 DEF AsksAbout
    <3>3. MeantFor[op] = "schedule_dream"
      BY <2>9 DEF MeantFor
    <3>4. AnswersAbout(MeantFor[op], Last)
            = Scope(get("observer"), Or(read, "observed", get("observer")), get("session_id"))
      BY <2>1, <3>3 DEF AnswersAbout
    <3>. HIDE DEF other
    <3>. QED BY <3>1, <3>2, <3>4, OrIs, OrSame
  <2> DEFINE f == read["filters"]
  <2>10. MeantFor[op] \in {"list_conclusions", "query_conclusions"}
          => AnswersAbout(MeantFor[op], Last)
               = Scope(f["observer_id"], f["observed_id"], Or(f, "session_id", <<>>))
    BY <2>1 DEF AnswersAbout
  <2>11. CASE op = "list"
    <3>1. /\ f = Given(args, {"session_id"}) ++ Scoped(args)
          /\ "session_id" \notin DOMAIN Or(args, "filters", NoKeys)
      BY <2>1, <2>11, ListRead DEF read, LIST_RESERVED_FILTERS
    <3>2. f["observer_id"] = Peer /\ f["observed_id"] = Observed(args) /\ Same(f, args, "session_id")
      BY <3>1, FiltersScope
    <3>3. AsksAbout = Scope(Peer, Observed(args), session)
      BY <2>11 DEF AsksAbout, Observed
    <3>4. MeantFor[op] = "list_conclusions"
      BY <2>11 DEF MeantFor
    <3>. HIDE DEF f
    <3>. QED BY <2>10, <3>2, <3>3, <3>4, OrSame
  <2>12. CASE op = "query"
    <3>1. f = Scoped(args)
      BY <2>1, <2>12, QueryRead DEF read
    <3>2. /\ f["observer_id"] = Peer /\ f["observed_id"] = Observed(args)
          /\ Same(f, Or(args, "filters", NoKeys), "session_id")
      BY <3>1, FiltersScope
    <3>3. AsksAbout = Scope(Peer, Observed(args), Or(Or(args, "filters", NoKeys), "session_id", <<>>))
      BY <2>12 DEF AsksAbout, Observed
    <3>4. MeantFor[op] = "query_conclusions"
      BY <2>12 DEF MeantFor
    <3>. HIDE DEF f
    <3>. QED BY <2>10, <3>2, <3>3, <3>4, OrSame
  <2>. QED BY <2>2, <2>4, <2>5, <2>6, <2>7, <2>8, <2>9, <2>11, <2>12
<1>. QED BY TypeCorrect, Calling, <1>1, PTL

-----------------------------------------------------------------------------
(* What the SDK refuses, and what the schema of the server does.            *)

\* What a call checks of its arguments, its ids left aside.
Guard(o, a) ==
  CASE o \in {"peers_with_filters", "sessions_with_filters", "workspaces", "sessions"} ->
         validate_pagination(a)
    [] o \in {"chat", "chat_stream"} -> validate_dialectic_query(a["query"])
    [] o \in {"representation", "context", "session_representation", "scope_representation"} ->
         validate_search_params(a)
    [] o = "context_with_options" -> validate_search_params(Given(a, SearchParams \cup {"target"}))
    [] o \in {"peer_search", "session_search"} -> a["query"] # "empty"
    [] o = "message" -> a["content"] \notin {"empty", "blank", "long"}
    [] o \in {"add_peers", "set_peers"} -> ~Repeats(a["peers"])
    [] o = "upload_file" -> "peer_id" \in DOMAIN a /\ a["file"] \notin Unusable
    [] o = "session_context" -> validate_context(a)
    [] o = "list" -> /\ reject_reserved_filters(a, LIST_RESERVED_FILTERS)
                     /\ validate_pagination(ListArgs(a))
    [] o = "query" -> /\ a["query"] \notin {"empty", "blank"}
                      /\ InRange(a, "top_k", 1 .. 100)
                      /\ InRange(a, "distance", 0 .. 100)
                      /\ reject_reserved_filters(a, QUERY_RESERVED_FILTERS)
    [] OTHER -> TRUE

\* The request is made just when the call's own checks and those of the route pass.
Needs(r, ok, route, ids) == r.refused <=> ~(ok /\ Checked(Templates[route], ids))

LEMMA RequestNeeds ==
  ASSUME NEW method, NEW route, NEW ids, NEW query, NEW body
  PROVE  Needs(Request(method, route, ids, query, body), TRUE, route, ids)
<1>1. CASE Checked(Templates[route], ids)
  BY <1>1 DEF Needs, Request
<1>2. CASE ~Checked(Templates[route], ids)
  BY <1>2 DEF Needs, Request, Refusal
<1>. QED BY <1>1, <1>2

LEMMA WhenNeeds ==
  ASSUME NEW ok, NEW r, NEW route, NEW ids, Needs(r, TRUE, route, ids)
  PROVE  Needs(When(ok, r), ok, route, ids)
<1>1. Refusal.refused
  BY DEF Refusal
<1>. QED BY <1>1, Zenon DEF When, Needs

LEMMA BothNeed ==
  ASSUME NEW p, NEW ok, NEW r, NEW route, NEW ids, Needs(r, ok, route, ids)
  PROVE  Needs(When(p, r), p /\ ok, route, ids)
<1>1. Refusal.refused
  BY DEF Refusal
<1>. QED BY <1>1, Zenon DEF When, Needs

LEMMA ListsNeed ==
  ASSUME NEW route, NEW ids, NEW a
  PROVE  Needs(paginate_post(route, ids, a), validate_pagination(a), route, ids)
BY RequestNeeds, WhenNeeds, Zenon DEF paginate_post

LEMMA SearchesNeed ==
  ASSUME NEW route, NEW ids, NEW a
  PROVE  Needs(search_with_options(route, ids, a), a["query"] # "empty", route, ids)
BY RequestNeeds, WhenNeeds, Zenon DEF search_with_options

LEMMA ClientNeeds ==
  ASSUME NEW a
  PROVE  /\ Needs(Honcho_update(a), TRUE, "workspace", OfWorkspace)
         /\ Needs(Honcho_delete_workspace(a), TRUE, "workspace",
                  [workspace_id |-> a["workspace_id"]])
         /\ Needs(Honcho_peer(a), TRUE, "peers", OfWorkspace)
         /\ Needs(Honcho_session(a), TRUE, "sessions", OfWorkspace)
         /\ Needs(Honcho_search(a), TRUE, "workspace_search", OfWorkspace)
         /\ Needs(Honcho_queue_status(a), TRUE, "workspace_queue_status", OfWorkspace)
         /\ Needs(Honcho_schedule_dream(a), TRUE, "workspace_schedule_dream", OfWorkspace)
         /\ Needs(Honcho_peers_with_filters(a), validate_pagination(a), "peers_list", OfWorkspace)
         /\ Needs(Honcho_sessions_with_filters(a), validate_pagination(a), "sessions_list",
                  OfWorkspace)
         /\ Needs(Honcho_workspaces(a), validate_pagination(a), "workspaces_list", NoKeys)
BY RequestNeeds, ListsNeed, Zenon DEF Honcho_update, Honcho_delete_workspace, Honcho_peer,
   Honcho_session, Honcho_search, Honcho_queue_status, Honcho_schedule_dream,
   Honcho_peers_with_filters, Honcho_sessions_with_filters, Honcho_workspaces

LEMMA PeerNeeds ==
  ASSUME NEW a
  PROVE  /\ Needs(Peer_chat(a), validate_dialectic_query(a["query"]), "peer_chat", OfPeer(Peer))
         /\ Needs(Peer_chat_stream(a), validate_dialectic_query(a["query"]), "peer_chat",
                  OfPeer(Peer))
         /\ Needs(Peer_representation(a), validate_search_params(a), "peer_representation",
                  OfPeer(Peer))
         /\ Needs(Peer_context(a), validate_search_params(a), "peer_context", OfPeer(Peer))
         /\ Needs(Peer_context_with_options(a),
                  validate_search_params(Given(a, SearchParams \cup {"target"})),
                  "peer_context", OfPeer(Peer))
         /\ Needs(Peer_sessions(a), validate_pagination(a), "peer_sessions_list", OfPeer(Peer))
         /\ Needs(Peer_search(a), a["query"] # "empty", "peer_search", OfPeer(Peer))
         /\ Needs(Peer_get_card(a), TRUE, "peer_card", OfPeer(Peer))
         /\ Needs(Peer_set_card(a), TRUE, "peer_card", OfPeer(Peer))
         /\ Needs(Peer_message(a), a["content"] \notin {"empty", "blank", "long"}, "messages",
                  OfSession)
<1>1. \A b : Needs(Peer_context(b), validate_search_params(b), "peer_context", OfPeer(Peer))
  BY RequestNeeds, WhenNeeds, Zenon DEF Peer_context
<1>. QED BY <1>1, RequestNeeds, WhenNeeds, ListsNeed, SearchesNeed, Zenon
     DEF Peer_chat, Peer_chat_stream, Peer_representation, Peer_context_with_options,
         Peer_sessions, Peer_search, Peer_get_card, Peer_set_card, Peer_message

LEMMA SessionNeeds ==
  ASSUME NEW a
  PROVE  /\ Needs(Session_add_peers(a), ~Repeats(a["peers"]), "session_peers", OfSession)
         /\ Needs(Session_set_peers(a), ~Repeats(a["peers"]), "session_peers", OfSession)
         /\ Needs(Session_remove_peers(a), TRUE, "session_peers", OfSession)
         /\ Needs(Session_get_peer_configuration(a), TRUE, "session_peer_config",
                  OfSession ++ Given(a, {"peer_id"}))
         /\ Needs(Session_set_peer_configuration(a), TRUE, "session_peer_config",
                  OfSession ++ Given(a, {"peer_id"}))
         /\ Needs(Session_upload_file(a), "peer_id" \in DOMAIN a /\ a["file"] \notin Unusable,
                  "messages_upload", OfSession)
         /\ Needs(Session_delete(a), TRUE, "session", OfSession)
         /\ Needs(Session_clone(a), TRUE, "session_clone", OfSession)
         /\ Needs(Session_get_message(a), TRUE, "message", OfSession ++ Given(a, {"message_id"}))
         /\ Needs(Session_update_message(a), TRUE, "message",
                  OfSession ++ Given(a, {"message_id"}))
         /\ Needs(Session_context(a), validate_context(a), "session_context", OfSession)
         /\ Needs(Session_summaries(a), TRUE, "session_summaries", OfSession)
         /\ Needs(Session_search(a), a["query"] # "empty", "session_search", OfSession)
         /\ Needs(Session_representation(a), validate_search_params(a), "peer_representation",
                  OfPeer(a["peer_id"]))
         /\ Needs(Session_queue_status(a), TRUE, "workspace_queue_status", OfWorkspace)
BY RequestNeeds, WhenNeeds, SearchesNeed, Zenon
   DEF Session_add_peers, Session_set_peers, Session_remove_peers,
       Session_get_peer_configuration, Session_set_peer_configuration, Session_upload_file,
       Session_delete, Session_clone, Session_get_message, Session_update_message,
       Session_context, Session_summaries, Session_search, Session_representation,
       Session_queue_status

LEMMA ScopeNeeds ==
  ASSUME NEW a
  PROVE  /\ Needs(Scope_create(a), TRUE, "conclusions", OfWorkspace)
         /\ Needs(Scope_representation(a), validate_search_params(a), "peer_representation",
                  OfPeer(Peer))
         /\ Needs(Scope_list(a), /\ reject_reserved_filters(a, LIST_RESERVED_FILTERS)
                                 /\ validate_pagination(ListArgs(a)),
                  "conclusions_list", OfWorkspace)
         /\ Needs(Scope_query(a), /\ a["query"] \notin {"empty", "blank"}
                                  /\ InRange(a, "top_k", 1 .. 100)
                                  /\ InRange(a, "distance", 0 .. 100)
                                  /\ reject_reserved_filters(a, QUERY_RESERVED_FILTERS),
                  "conclusions_query", OfWorkspace)
         /\ Needs(Scope_delete(a), TRUE, "conclusion", OfWorkspace ++ Given(a, {"conclusion_id"}))
BY RequestNeeds, WhenNeeds, BothNeed, ListsNeed, Zenon
   DEF Scope_create, Scope_representation, Scope_list, ListArgs, Scope_query, Scope_delete

LEMMA Guards ==
  ASSUME NEW a
  PROVE  /\ \A o \in {"peers_with_filters", "sessions_with_filters", "workspaces", "sessions"} :
              Guard(o, a) <=> validate_pagination(a)
         /\ \A o \in {"chat", "chat_stream"} :
              Guard(o, a) <=> validate_dialectic_query(a["query"])
         /\ \A o \in {"representation", "context", "session_representation",
                      "scope_representation"} : Guard(o, a) <=> validate_search_params(a)
         /\ Guard("context_with_options", a)
              <=> validate_search_params(Given(a, SearchParams \cup {"target"}))
         /\ \A o \in {"peer_search", "session_search"} : Guard(o, a) <=> a["query"] # "empty"
         /\ Guard("message", a) <=> a["content"] \notin {"empty", "blank", "long"}
         /\ \A o \in {"add_peers", "set_peers"} : Guard(o, a) <=> ~Repeats(a["peers"])
         /\ Guard("upload_file", a) <=> "peer_id" \in DOMAIN a /\ a["file"] \notin Unusable
         /\ Guard("session_context", a) <=> validate_context(a)
         /\ Guard("list", a) <=> /\ reject_reserved_filters(a, LIST_RESERVED_FILTERS)
                                /\ validate_pagination(ListArgs(a))
         /\ Guard("query", a) <=> /\ a["query"] \notin {"empty", "blank"}
                                 /\ InRange(a, "top_k", 1 .. 100)
                                 /\ InRange(a, "distance", 0 .. 100)
                                 /\ reject_reserved_filters(a, QUERY_RESERVED_FILTERS)
         /\ \A o \in {"update", "delete_workspace", "peer", "session", "search", "queue_status",
                      "schedule_dream", "get_card", "set_card", "remove_peers",
                      "get_peer_configuration", "set_peer_configuration", "delete",
                      "clone_session", "get_message", "update_message", "summaries",
                      "session_queue_status", "create", "delete_conclusion"} : Guard(o, a)
BY DEF Guard

\* What a call needs for its request to be made.
NeedsOf(o, a, r, route, ids) ==
  r.refused <=> ~(Guard(o, a) /\ Checked(Templates[route], ids))

LEMMA CallNeeds ==
  ASSUME NEW o \in DOMAIN AsyncCalls, NEW a
  PROVE  NeedsOf(o, a, RequestOf(o, a), Shape[MeantFor[o]].route, IdsOf(o, a))
<1>1. /\ NeedsOf("update", a, Honcho_update(a), "workspace", OfWorkspace)
      /\ NeedsOf("delete_workspace", a, Honcho_delete_workspace(a), "workspace",
                     [workspace_id |-> a["workspace_id"]])
      /\ NeedsOf("peer", a, Honcho_peer(a), "peers", OfWorkspace)
      /\ NeedsOf("session", a, Honcho_session(a), "sessions", OfWorkspace)
      /\ NeedsOf("search", a, Honcho_search(a), "workspace_search", OfWorkspace)
      /\ NeedsOf("queue_status", a, Honcho_queue_status(a), "workspace_queue_status",
                     OfWorkspace)
      /\ NeedsOf("schedule_dream", a, Honcho_schedule_dream(a), "workspace_schedule_dream",
                     OfWorkspace)
      /\ NeedsOf("peers_with_filters", a, Honcho_peers_with_filters(a), "peers_list",
                     OfWorkspace)
      /\ NeedsOf("sessions_with_filters", a, Honcho_sessions_with_filters(a), "sessions_list",
                     OfWorkspace)
      /\ NeedsOf("workspaces", a, Honcho_workspaces(a), "workspaces_list", NoKeys)
  BY ClientNeeds, Guards, Zenon DEF NeedsOf, Needs
<1>2. /\ NeedsOf("chat", a, Peer_chat(a), "peer_chat", OfPeer(Peer))
      /\ NeedsOf("chat_stream", a, Peer_chat_stream(a), "peer_chat", OfPeer(Peer))
      /\ NeedsOf("representation", a, Peer_representation(a), "peer_representation",
                     OfPeer(Peer))
      /\ NeedsOf("context", a, Peer_context(a), "peer_context", OfPeer(Peer))
      /\ NeedsOf("context_with_options", a, Peer_context_with_options(a), "peer_context",
                     OfPeer(Peer))
      /\ NeedsOf("sessions", a, Peer_sessions(a), "peer_sessions_list", OfPeer(Peer))
      /\ NeedsOf("peer_search", a, Peer_search(a), "peer_search", OfPeer(Peer))
      /\ NeedsOf("get_card", a, Peer_get_card(a), "peer_card", OfPeer(Peer))
      /\ NeedsOf("set_card", a, Peer_set_card(a), "peer_card", OfPeer(Peer))
      /\ NeedsOf("message", a, Peer_message(a), "messages", OfSession)
  BY PeerNeeds, Guards, Zenon DEF NeedsOf, Needs
<1>3. /\ NeedsOf("add_peers", a, Session_add_peers(a), "session_peers", OfSession)
      /\ NeedsOf("set_peers", a, Session_set_peers(a), "session_peers", OfSession)
      /\ NeedsOf("remove_peers", a, Session_remove_peers(a), "session_peers", OfSession)
      /\ NeedsOf("get_peer_configuration", a, Session_get_peer_configuration(a),
                     "session_peer_config", OfSession ++ Given(a, {"peer_id"}))
      /\ NeedsOf("set_peer_configuration", a, Session_set_peer_configuration(a),
                     "session_peer_config", OfSession ++ Given(a, {"peer_id"}))
      /\ NeedsOf("upload_file", a, Session_upload_file(a), "messages_upload", OfSession)
      /\ NeedsOf("delete", a, Session_delete(a), "session", OfSession)
      /\ NeedsOf("clone_session", a, Session_clone(a), "session_clone", OfSession)
      /\ NeedsOf("get_message", a, Session_get_message(a), "message",
                     OfSession ++ Given(a, {"message_id"}))
      /\ NeedsOf("update_message", a, Session_update_message(a), "message",
                     OfSession ++ Given(a, {"message_id"}))
      /\ NeedsOf("session_context", a, Session_context(a), "session_context", OfSession)
      /\ NeedsOf("summaries", a, Session_summaries(a), "session_summaries", OfSession)
      /\ NeedsOf("session_search", a, Session_search(a), "session_search", OfSession)
      /\ NeedsOf("session_representation", a, Session_representation(a), "peer_representation",
                     OfPeer(a["peer_id"]))
      /\ NeedsOf("session_queue_status", a, Session_queue_status(a), "workspace_queue_status",
                     OfWorkspace)
  BY SessionNeeds, Guards, Zenon DEF NeedsOf, Needs
<1>4. /\ NeedsOf("create", a, Scope_create(a), "conclusions", OfWorkspace)
      /\ NeedsOf("scope_representation", a, Scope_representation(a), "peer_representation",
                     OfPeer(Peer))
      /\ NeedsOf("list", a, Scope_list(a), "conclusions_list", OfWorkspace)
      /\ NeedsOf("query", a, Scope_query(a), "conclusions_query", OfWorkspace)
      /\ NeedsOf("delete_conclusion", a, Scope_delete(a), "conclusion",
                     OfWorkspace ++ Given(a, {"conclusion_id"}))
  BY ScopeNeeds, Guards, Zenon DEF NeedsOf, Needs
<1>5. CASE o \in WorkspaceCalls
  BY <1>5, <1>1, <1>3, <1>4, Dispatches, Meant
     DEF GoesTo, IdsOf, WorkspaceCalls, PeerOnlyCalls, SessionOnlyCalls
<1>6. CASE o \in PeerOnlyCalls
  BY <1>6, <1>2, <1>4, Dispatches, Meant
     DEF GoesTo, IdsOf, WorkspaceCalls, PeerOnlyCalls, SessionOnlyCalls
<1>7. CASE o \in SessionOnlyCalls
  BY <1>7, <1>2, <1>3, Dispatches, Meant
     DEF GoesTo, IdsOf, WorkspaceCalls, PeerOnlyCalls, SessionOnlyCalls
<1>8. CASE o = "delete_workspace"
  BY <1>8, <1>1, Dispatches, Meant
     DEF GoesTo, IdsOf, WorkspaceCalls, PeerOnlyCalls, SessionOnlyCalls
<1>9. CASE o = "workspaces"
  BY <1>9, <1>1, Dispatches, Meant
     DEF GoesTo, IdsOf, WorkspaceCalls, PeerOnlyCalls, SessionOnlyCalls
<1>10. CASE o = "session_representation"
  BY <1>10, <1>3, Dispatches, Meant
     DEF GoesTo, IdsOf, WorkspaceCalls, PeerOnlyCalls, SessionOnlyCalls
<1>11. CASE o \in {"get_peer_configuration", "set_peer_configuration"}
  BY <1>11, <1>3, Dispatches, Meant
     DEF GoesTo, IdsOf, WorkspaceCalls, PeerOnlyCalls, SessionOnlyCalls
<1>12. CASE o \in {"get_message", "update_message"}
  BY <1>12, <1>3, Dispatches, Meant
     DEF GoesTo, IdsOf, WorkspaceCalls, PeerOnlyCalls, SessionOnlyCalls
<1>13. CASE o = "delete_conclusion"
  BY <1>13, <1>4, Dispatches, Meant
     DEF GoesTo, IdsOf, WorkspaceCalls, PeerOnlyCalls, SessionOnlyCalls
<1>. QED BY <1>5, <1>6, <1>7, <1>8, <1>9, <1>10, <1>11, <1>12, <1>13
     DEF AsyncCalls, ClientCalls, PeerCalls, SessionCalls, ScopeCalls, ++, WorkspaceCalls,
         PeerOnlyCalls, SessionOnlyCalls

LEMMA SchemaKeys ==
  ASSUME NEW e, NEW k, NEW v
  PROVE  /\ k \in {"search_top_k", "max_conclusions", "top_k", "size", "limit"} =>
              (SchemaAllows(e, k, v) <=> v \in 1 .. 100)
         /\ k \in {"search_max_distance", "distance"} => (SchemaAllows(e, k, v) <=> v \in 0 .. 100)
         /\ k = "page" => (SchemaAllows(e, k, v) <=> v >= 1)
         /\ k = "query" /\ e = "peer_chat" => (SchemaAllows(e, k, v) <=> v \notin {"empty", "long"})
         /\ k = "query" /\ e # "peer_chat" => SchemaAllows(e, k, v)
         /\ k = "content" /\ e = "create_messages" => (SchemaAllows(e, k, v) <=> v # "long")
         /\ k = "id" /\ v = <<>> => ~SchemaAllows(e, k, v)
         /\ k \notin {"search_top_k", "max_conclusions", "top_k", "size", "limit",
                      "search_max_distance", "distance", "page", "tokens", "query", "content",
                      "id"} => SchemaAllows(e, k, v)
<1>1. /\ SchemaAllows(e, "search_top_k", v) <=> v \in 1 .. 100
      /\ SchemaAllows(e, "max_conclusions", v) <=> v \in 1 .. 100
      /\ SchemaAllows(e, "top_k", v) <=> v \in 1 .. 100
      /\ SchemaAllows(e, "size", v) <=> v \in 1 .. 100
      /\ SchemaAllows(e, "limit", v) <=> v \in 1 .. 100
  BY SMT DEF SchemaAllows
<1>2. /\ SchemaAllows(e, "search_max_distance", v) <=> v \in 0 .. 100
      /\ SchemaAllows(e, "distance", v) <=> v \in 0 .. 100
  BY SMT DEF SchemaAllows
<1>3. SchemaAllows(e, "page", v) <=> v >= 1
  BY SMT DEF SchemaAllows
<1>4. SchemaAllows("peer_chat", "query", v) <=> v \notin {"empty", "long"}
  BY SMT DEF SchemaAllows
<1>5. e # "peer_chat" => SchemaAllows(e, "query", v)
  BY SMT DEF SchemaAllows
<1>6. SchemaAllows("create_messages", "content", v) <=> v # "long"
  BY SMT DEF SchemaAllows
<1>7. ~SchemaAllows(e, "id", <<>>)
  BY SMT DEF SchemaAllows
<1>8. ASSUME k \notin {"search_top_k", "max_conclusions", "top_k", "size", "limit",
                      "search_max_distance", "distance", "page", "tokens", "query", "content",
                      "id"}
      PROVE  SchemaAllows(e, k, v)
  BY <1>8, SMT DEF SchemaAllows
<1>. QED BY <1>1, <1>2, <1>3, <1>4, <1>5, <1>6, <1>7, <1>8

\* The options are passed on as they are: checking them there is checking them here.
LEMMA SearchGiven ==
  ASSUME NEW a
  PROVE  validate_search_params(Given(a, SearchParams \cup {"target"})) <=> validate_search_params(a)
<1>1. \A k \in SearchParams : Same(Given(a, SearchParams \cup {"target"}), a, k)
  BY SameGiven
<1>. QED BY <1>1 DEF validate_search_params, InRange, Same, SearchParams

LEMMA PagesGiven ==
  ASSUME NEW a
  PROVE  validate_pagination(ListArgs(a)) <=> validate_pagination(a)
<1>1. \A k \in {"page", "size"} : Same(ListArgs(a), a, k)
  BY SameGiven, SameAfter DEF ListArgs
<1>. QED BY <1>1 DEF validate_pagination, InRange, Same

\* The bounds of a search are those of the schema.
LEMMA SearchAgrees ==
  ASSUME NEW e, NEW a
  PROVE  validate_search_params(a)
           <=> \A k \in DOMAIN a \cap {"search_top_k", "search_max_distance", "max_conclusions"} :
                 SchemaAllows(e, k, a[k])
<1>1. /\ InRange(a, "search_top_k", 1 .. 100)
           <=> ("search_top_k" \in DOMAIN a => SchemaAllows(e, "search_top_k", a["search_top_k"]))
      /\ InRange(a, "max_conclusions", 1 .. 100)
           <=> ("max_conclusions" \in DOMAIN a
                  => SchemaAllows(e, "max_conclusions", a["max_conclusions"]))
  BY SchemaKeys DEF InRange
<1>2. InRange(a, "search_max_distance", 0 .. 100)
        <=> ("search_max_distance" \in DOMAIN a
               => SchemaAllows(e, "search_max_distance", a["search_max_distance"]))
  BY SchemaKeys DEF InRange
<1>. QED BY <1>1, <1>2, Zenon DEF validate_search_params

LEMMA PagesAgree ==
  ASSUME NEW e, NEW a, "page" \in DOMAIN a => a["page"] \in Nat
  PROVE  validate_pagination(a)
           <=> \A k \in DOMAIN a \cap {"page", "size"} : SchemaAllows(e, k, a[k])
<1>1. InRange(a, "page", Nat \ {0}) <=> ("page" \in DOMAIN a => SchemaAllows(e, "page", a["page"]))
  <2>1. CASE "page" \in DOMAIN a
    <3>1. SchemaAllows(e, "page", a["page"]) <=> a["page"] >= 1
      BY SchemaKeys
    <3>2. a["page"] \in Nat \ {0} <=> a["page"] >= 1
      BY <2>1
    <3>. QED BY <2>1, <3>1, <3>2, Zenon DEF InRange
  <2>2. CASE "page" \notin DOMAIN a
    BY <2>2 DEF InRange
  <2>. QED BY <2>1, <2>2
<1>2. InRange(a, "size", 1 .. 100) <=> ("size" \in DOMAIN a => SchemaAllows(e, "size", a["size"]))
  BY SchemaKeys DEF InRange
<1>. QED BY <1>1, <1>2, Zenon DEF validate_pagination

\* The calls by what they take.
Searching == {"representation", "context", "context_with_options", "session_context",
              "session_representation", "scope_representation"}
Listing == {"peers_with_filters", "sessions_with_filters", "workspaces", "sessions", "list"}
TakenBy(o, c) ==
  /\ c.may \cap {"search_top_k", "search_max_distance", "max_conclusions"} # {} => o \in Searching
  /\ c.may \cap {"page", "size"} # {} => o \in Listing
  /\ c.may \cap {"top_k", "distance"} # {} => o = "query"
  /\ "content" \in c.may => o \in {"message", "create"}
  /\ "query" \in c.may => o \in {"search", "chat", "chat_stream", "peer_search", "session_search",
                                 "query"}

LEMMA CallsTake == \A o \in DOMAIN AsyncCalls : TakenBy(o, AsyncCalls[o])
<1>1. \A o \in DOMAIN ClientCalls : TakenBy(o, ClientCalls[o])
  BY DEF ClientCalls, Takes, TakenBy, Paging, Searching, Listing
<1>2. \A o \in DOMAIN PeerCalls : TakenBy(o, PeerCalls[o])
  BY DEF PeerCalls, Takes, TakenBy, Paging, ChatOptions, ChatStreamSetters, RepresentationSetters,
         ContextSetters, PeerContextOptions, MessageSetters, SearchParams, Searching, Listing
<1>3. \A o \in DOMAIN SessionCalls : TakenBy(o, SessionCalls[o])
  BY DEF SessionCalls, Takes, TakenBy, UploadFileSetters, SessionRepresentationSetters,
         SessionContextSetters, SearchParams, Searching, Listing
<1>4. \A o \in DOMAIN ScopeCalls : TakenBy(o, ScopeCalls[o])
  BY DEF ScopeCalls, Takes, TakenBy, ScopeRepresentationSetters, ListSetters, QuerySetters,
         SearchParams, Searching, Listing
<1>. QED BY <1>1, <1>2, <1>3, <1>4, CallParts

\* What the checks of a call mean for the arguments of a search and of a list.
LEMMA SearchGuard ==
  ASSUME NEW o \in Searching \ {"session_context"}, NEW a
  PROVE  Guard(o, a) <=> validate_search_params(a)
BY Guards, SearchGiven DEF Searching

LEMMA ListGuard ==
  ASSUME NEW o \in Listing \ {"list"}, NEW a
  PROVE  Guard(o, a) <=> validate_pagination(a)
BY Guards DEF Listing

\* A request that is made has nothing in it that the schema forbids, but for what the SDK
\* leaves to the server.
LEMMA SentIsAllowed ==
  ASSUME NEW o, NEW a, Asked(o, a), NEW k \in DOMAIN a, ~LeftToServer(MeantFor[o], k)
  PROVE  SchemaAllows(MeantFor[o], k, a[k])
<1> DEFINE e == MeantFor[o]
<1>1. Guard(o, a)
  BY CallNeeds DEF Asked, NeedsOf
<1>2. TakenBy(o, AsyncCalls[o]) /\ k \in AsyncCalls[o].may
  BY CallsTake DEF Asked
<1>3. k \notin {"limit", "tokens", "id"} /\ ~(e = "create_conclusions" /\ k = "content")
  BY DEF LeftToServer
<1>4. CASE k \in {"search_top_k", "search_max_distance", "max_conclusions"}
  <2>1. o \in Searching
    BY <1>2, <1>4 DEF TakenBy
  <2>2. CASE o = "session_context"
    <3>1. validate_search_params(a)
      BY <1>1, <2>2, Guards DEF validate_context
    <3>. QED BY <1>4, <3>1, SearchAgrees
  <2>3. CASE o # "session_context"
    <3>1. validate_search_params(a)
      BY <1>1, <2>1, <2>3, SearchGuard
    <3>. QED BY <1>4, <3>1, SearchAgrees
  <2>. QED BY <2>2, <2>3
<1>5. CASE k \in {"page", "size"}
  <2>1. o \in Listing
    BY <1>2, <1>5 DEF TakenBy
  <2>2. validate_pagination(a)
    BY <1>1, <2>1, ListGuard, Guards, PagesGiven
  <2>3. "page" \in DOMAIN a => a["page"] \in Nat
    BY ValuesAssumption DEF Asked
  <2>. QED BY <1>5, <2>2, <2>3, PagesAgree
<1>6. CASE k \in {"top_k", "distance"}
  <2>1. InRange(a, "top_k", 1 .. 100) /\ InRange(a, "distance", 0 .. 100)
    BY <1>1, <1>2, <1>6, Guards DEF TakenBy
  <2>. QED BY <1>6, <2>1, SchemaKeys DEF InRange
<1>7. CASE k = "query"
  <2>1. e = "peer_chat" => o \in {"chat", "chat_stream"}
    BY <1>2, <1>7 DEF TakenBy, MeantFor
  <2>2. CASE e = "peer_chat"
    <3>1. validate_dialectic_query(a["query"])
      BY <1>1, <2>1, <2>2, Guards
    <3>. QED BY <1>7, <2>2, <3>1, SchemaKeys DEF validate_dialectic_query
  <2>3. CASE e # "peer_chat"
    BY <1>7, <2>3, SchemaKeys
  <2>. QED BY <2>2, <2>3
<1>8. CASE k = "content"
  <2>1. o \in {"message", "create"}
    BY <1>2, <1>8 DEF TakenBy
  <2>2. o = "message" /\ e = "create_messages"
    BY <1>3, <1>8, <2>1 DEF MeantFor
  <2>3. a["content"] # "long"
    BY <1>1, <2>2, Guards
  <2>. QED BY <1>8, <2>2, <2>3, SchemaKeys
<1>9. CASE k \notin {"search_top_k", "search_max_distance", "max_conclusions", "page", "size",
                     "top_k", "distance", "query", "content"}
  BY <1>3, <1>9, SchemaKeys
<1>. QED BY <1>4, <1>5, <1>6, <1>7, <1>8, <1>9

\* An id that the route refuses is a blank one or one of dots.
LEMMA DotsArrive ==
  ASSUME NEW id \in Seq(Chars), ~validate_id(id)
  PROVE  Blank(id) \/ Arrives(id) \in {<<".">>, <<".", ".">>}
<1> SUFFICES ASSUME DotSegment(id) PROVE Arrives(id) \in {<<".">>, <<".", ".">>}
  BY DEF validate_id
<1>1. Len(id) \in {1, 2} /\ DOMAIN id = 1 .. Len(id)
  BY DEF DotSegment
<1>2. \A i \in DOMAIN id : DecodeToken(id[i]) = "."
  BY DEF DotSegment, DecodeToken
<1>3. Arrives(id) = [i \in 1 .. Len(id) |-> "."]
  BY <1>1, <1>2 DEF Arrives
<1>4. [i \in 1 .. 1 |-> "."] = <<".">> /\ [i \in 1 .. 2 |-> "."] = <<".", ".">>
  OBVIOUS
<1>. QED BY <1>1, <1>3, <1>4

\* Whatever a call is refused for is one of the reasons that are documented, or is
\* against the schema.
Justified ==
  \/ StricterThanSchema
  \/ \E k \in DOMAIN args : ~SchemaAllows(MeantFor[op], k, args[k])

LEMMA IdsJustified ==
  ASSUME op \in DOMAIN AsyncCalls,
         DOMAIN args \subseteq AsyncCalls[op].may, AsyncCalls[op].must \subseteq DOMAIN args,
         \A k \in DOMAIN args : k \in DOMAIN Values /\ args[k] \in Values[k],
         ~Checked(Templates[Shape[MeantFor[op]].route], IdsOf(op, args))
  PROVE  StricterThanSchema
<1> DEFINE path == Templates[Shape[MeantFor[op]].route]
           ids == IdsOf(op, args)
<1>1. PICK i \in DOMAIN path : path[i] \in Parameters /\ ~validate_id(ids[path[i]])
  BY DEF Checked
<1> DEFINE p == path[i]
<1>2. ids[p] = IdMeant(args, p) /\ p \in DOMAIN args \cup {"workspace_id", "peer_id", "session_id"}
  BY <1>1, IdsAsMeant
<1>3. p \in DOMAIN args /\ p # "session_id"
  <2>1. CASE ~(p \in DOMAIN args /\ p # "session_id")
    <3>1. IdMeant(args, p) \in {Workspace, Peer, Session}
      BY <1>2, <2>1 DEF IdMeant
    <3>. QED BY <1>1, <1>2, <3>1, HandlesValid
  <2>. QED BY <2>1
<1>4. ids[p] = args[p]
  BY <1>2, <1>3 DEF IdMeant
<1>5. p \in Parameters /\ args[p] \in Seq(Chars)
  BY <1>1, <1>3, ValuesAssumption
<1>6. Blank(args[p]) \/ Arrives(args[p]) \in {<<".">>, <<".", ".">>}
  BY <1>1, <1>4, <1>5, DotsArrive
<1>7. p \in DOMAIN args \cap Parameters
  BY <1>3, <1>5
<1>. HIDE DEF p, path, ids
<1>. QED BY <1>6, <1>7, Zenon DEF StricterThanSchema

LEMMA RefusalJustified ==
  ASSUME op \in DOMAIN AsyncCalls, AsyncCalls[op].must \subseteq DOMAIN args,
         "page" \in DOMAIN args => args["page"] \in Nat,
         ~Guard(op, args)
  PROVE  Justified
<1> DEFINE e == MeantFor[op]
<1>1. CASE op \in Searching /\ ~validate_search_params(args)
  BY <1>1, SearchAgrees DEF Justified
<1>2. CASE op \in Listing /\ ~validate_pagination(args)
  BY <1>2, PagesAgree DEF Justified
<1>3. CASE op \in Searching \ {"session_context"}
  BY <1>1, <1>3, SearchGuard
<1>4. CASE op \in Listing \ {"list"}
  BY <1>2, <1>4, ListGuard
<1>5. CASE op \in {"chat", "chat_stream"}
  <2>1. e = "peer_chat" /\ "query" \in DOMAIN args /\ ~validate_dialectic_query(args["query"])
    BY <1>5, Guards, PeerTakes DEF Of, MeantFor
  <2>2. CASE args["query"] = "long"
    <3>1. ~SchemaAllows(e, "query", args["query"])
      BY <2>1, <2>2, SchemaKeys
    <3>. QED BY <2>1, <3>1 DEF Justified
  <2>3. CASE args["query"] \in {"empty", "blank"}
    BY <1>5, <2>3 DEF Justified, StricterThanSchema
  <2>. QED BY <2>1, <2>2, <2>3 DEF validate_dialectic_query
<1>6. CASE op \in {"peer_search", "session_search"}
  BY <1>6, Guards DEF Justified, StricterThanSchema
<1>7. CASE op = "message"
  <2>1. e = "create_messages" /\ "content" \in DOMAIN args
        /\ args["content"] \in {"empty", "blank", "long"}
    BY <1>7, Guards, PeerTakes DEF Of, MeantFor
  <2>2. CASE args["content"] = "long"
    <3>1. ~SchemaAllows(e, "content", args["content"])
      BY <2>1, <2>2, SchemaKeys
    <3>. QED BY <2>1, <3>1 DEF Justified
  <2>3. CASE args["content"] \in {"empty", "blank"}
    BY <1>7, <2>3 DEF Justified, StricterThanSchema
  <2>. QED BY <2>1, <2>2, <2>3
<1>8. CASE op \in {"add_peers", "set_peers", "upload_file"}
  BY <1>8, Guards DEF Justified, StricterThanSchema
<1>9. CASE op = "session_context"
  <2>1. CASE ~validate_search_params(args)
    BY <1>1, <1>9, <2>1 DEF Searching
  <2>2. CASE /\ {"peer_perspective", "search_query"} \cap DOMAIN args # {}
             /\ "peer_target" \notin DOMAIN args
    BY <1>9, <2>2, Zenon DEF Justified, StricterThanSchema
  <2>3. CASE "tokens" \in DOMAIN args /\ args["tokens"] = 0
    <3>1. Or(args, "tokens", 1) = 0
      BY <2>3 DEF Or
    <3>. QED BY <1>9, <3>1, Zenon DEF Justified, StricterThanSchema
  <2>. QED BY <1>9, <2>1, <2>2, <2>3, Guards DEF validate_context
<1>10. CASE op = "list"
  <2>1. CASE ~validate_pagination(args)
    BY <1>2, <1>10, <2>1 DEF Listing
  <2>2. CASE ~reject_reserved_filters(args, LIST_RESERVED_FILTERS)
    BY <1>10, <2>2, Zenon DEF Justified, StricterThanSchema
  <2>. QED BY <1>10, <2>1, <2>2, Guards, PagesGiven
<1>11. CASE op = "query"
  <2>1. CASE args["query"] \in {"empty", "blank"}
    BY <1>11, <2>1 DEF Justified, StricterThanSchema
  <2>2. CASE ~InRange(args, "top_k", 1 .. 100)
    <3>1. "top_k" \in DOMAIN args /\ ~SchemaAllows(e, "top_k", args["top_k"])
      BY <2>2, SchemaKeys DEF InRange
    <3>. QED BY <3>1 DEF Justified
  <2>3. CASE ~InRange(args, "distance", 0 .. 100)
    <3>1. "distance" \in DOMAIN args /\ ~SchemaAllows(e, "distance", args["distance"])
      BY <2>3, SchemaKeys DEF InRange
    <3>. QED BY <3>1 DEF Justified
  <2>4. CASE ~reject_reserved_filters(args, QUERY_RESERVED_FILTERS)
    BY <1>11, <2>4, Zenon DEF Justified, StricterThanSchema
  <2>. QED BY <1>11, <2>1, <2>2, <2>3, <2>4, Guards
<1>12. CASE op \notin Searching \cup Listing \cup
              {"chat", "chat_stream", "peer_search", "session_search", "message", "add_peers",
               "set_peers", "upload_file", "session_context", "query"}
  BY <1>12 DEF Guard, Searching, Listing
<1>. QED BY <1>3, <1>4, <1>5, <1>6, <1>7, <1>8, <1>9, <1>10, <1>11, <1>12

\* AgreesWithSchema says of a refused call why; this says that it was refused for a reason.
RefusedInv ==
  answer = "refused" =>
    /\ pc = "done" /\ op \in DOMAIN AsyncCalls
    /\ AsyncCalls[op].must \subseteq DOMAIN args
    /\ RequestOf(op, args).refused \/ ~PassesBeforeEnsure(facade, op, args)

LEMMA RefusedNext ==
  TypeOK /\ SilentInv /\ CallInv /\ RefusedInv /\ [Next]_vars => RefusedInv'
<1> SUFFICES ASSUME TypeOK, SilentInv, CallInv, RefusedInv, [Next]_vars PROVE RefusedInv'
  OBVIOUS
<1>0. pc \in {"building", "ensuring", "sending"} => answer = "none"
  BY DEF SilentInv
<1>1. ASSUME NEW f, NEW o, Begin(f, o) PROVE RefusedInv'
  BY <1>1 DEF Begin, RefusedInv
<1>2. ASSUME NEW k, NEW v, Set(k, v) PROVE RefusedInv'
  BY <1>0, <1>2 DEF Set, RefusedInv
<1>3. CASE Send
  <2>1. op \in DOMAIN AsyncCalls
    BY <1>3 DEF Send, TypeOK
  <2>2. CASE ~PassesBeforeEnsure(facade, op, args)
    BY <1>3, <2>1, <2>2 DEF Send, Refuse, RefusedInv
  <2>3. CASE PassesBeforeEnsure(facade, op, args) /\ op \in Ensuring /\ ~ensured
    BY <1>0, <1>3, <2>3 DEF Send, RefusedInv
  <2>4. CASE PassesBeforeEnsure(facade, op, args) /\ ~(op \in Ensuring /\ ~ensured)
    <3>1. Dispatch /\ UNCHANGED <<op, facade, args, ensured>> /\ answer = "none"
      BY <1>0, <1>3, <2>4 DEF Send
    <3>2. CASE RequestOf(op, args).refused
      BY <1>3, <2>1, <3>1, <3>2 DEF Send, Dispatch, Refuse, RefusedInv
    <3>3. CASE ~RequestOf(op, args).refused
      BY <3>1, <3>3 DEF Dispatch, RefusedInv
    <3>. QED BY <3>2, <3>3
  <2>. QED BY <2>2, <2>3, <2>4
<1>4. CASE EnsureAnswered
  <2>1. /\ op \in DOMAIN AsyncCalls /\ AsyncCalls[op].must \subseteq DOMAIN args
        /\ answer = "none" /\ UNCHANGED <<op, facade, args>>
    BY <1>0, <1>4 DEF EnsureAnswered, TypeOK, CallInv
  <2>2. CASE Dispatch
    <3>1. CASE RequestOf(op, args).refused
      BY <2>1, <2>2, <3>1 DEF Dispatch, Refuse, RefusedInv
    <3>2. CASE ~RequestOf(op, args).refused
      BY <2>1, <2>2, <3>2 DEF Dispatch, RefusedInv
    <3>. QED BY <3>1, <3>2
  <2>3. CASE answer' = "failed"
    BY <2>3 DEF RefusedInv
  <2>. QED BY <1>4, <2>2, <2>3 DEF EnsureAnswered
<1>5. CASE Answered
  BY <1>5 DEF Answered, RefusedInv
<1>6. CASE UNCHANGED vars
  BY <1>6 DEF vars, RefusedInv
<1>. QED BY <1>1, <1>2, <1>3, <1>4, <1>5, <1>6 DEF Next

LEMMA Refusing == Spec => []RefusedInv
<1>1. Init => RefusedInv
  BY DEF Init, RefusedInv
<1>. QED BY TypeCorrect, Silent, Calling, <1>1, RefusedNext, PTL DEF Spec

\* For any values of the arguments: what is sent the schema allows, what is refused it
\* forbids, and the exceptions are those the code documents.
THEOREM AgreesWithSchemaHolds == Spec => []AgreesWithSchema
<1>1. TypeOK /\ CallInv /\ RefusedInv => AgreesWithSchema
  <2> SUFFICES ASSUME TypeOK, CallInv, RefusedInv PROVE AgreesWithSchema
    OBVIOUS
  <2>1. ASSUME Under, NEW k \in DOMAIN args, ~LeftToServer(MeantFor[op], k)
        PROVE  SchemaAllows(MeantFor[op], k, args[k])
    BY <2>1, CallAsked, SentIsAllowed
  <2>2. ASSUME answer = "refused" PROVE Justified
    <3>1. /\ op \in DOMAIN AsyncCalls /\ AsyncCalls[op].must \subseteq DOMAIN args
          /\ RequestOf(op, args).refused \/ ~PassesBeforeEnsure(facade, op, args)
      BY <2>2 DEF RefusedInv
    <3>2. /\ DOMAIN args \subseteq AsyncCalls[op].may
          /\ \A k \in DOMAIN args : k \in DOMAIN Values /\ args[k] \in Values[k]
      BY <3>1, NoneIsNoCall DEF TypeOK
    <3>3. "page" \in DOMAIN args => args["page"] \in Nat
      BY <3>2, ValuesAssumption
    <3>4. CASE ~Guard(op, args)
      BY <3>1, <3>3, <3>4, RefusalJustified
    <3>5. CASE ~Checked(Templates[Shape[MeantFor[op]].route], IdsOf(op, args))
      BY <3>1, <3>2, <3>5, IdsJustified DEF Justified
    <3>6. CASE ~PassesBeforeEnsure(facade, op, args)
      <4>1. CASE op \in {"peer", "session"} /\ args["id"] = <<>>
        <5>1. "id" \in DOMAIN args
          BY <3>1, <4>1, ClientTakes DEF Of
        <5>2. ~SchemaAllows(MeantFor[op], "id", args["id"])
          BY <4>1, SchemaKeys
        <5>. QED BY <5>1, <5>2 DEF Justified
      <4>2. CASE op = "schedule_dream" /\ args["observer"] = <<>>
        BY <4>2, Zenon DEF Justified, StricterThanSchema
      <4>3. CASE op \in Lists /\ ~validate_pagination(args)
        BY <3>3, <4>3, PagesAgree DEF Justified
      <4>. QED BY <3>6, <4>1, <4>2, <4>3 DEF PassesBeforeEnsure
    <3>. QED BY <3>1, <3>4, <3>5, <3>6, CallNeeds DEF NeedsOf
  <2>. QED BY <2>1, <2>2 DEF AgreesWithSchema, Justified
<1>. QED BY TypeCorrect, Calling, Refusing, <1>1, PTL
=============================================================================
