-------------------------------- MODULE Routes --------------------------------
(***************************************************************************)
(* src/src/http/routes.rs: how the path of a request is made.  Every id    *)
(* that goes into a path is checked by validate_id and percent-encoded by  *)
(* encode; what a URL parser and the server make of the result is          *)
(* Survives and Arrives.                                                   *)
(*                                                                         *)
(* An id is a sequence of characters, in which "%2e" and "%2F" stand for   *)
(* the three characters a caller may have typed.  A segment of a path is a *)
(* sequence of what the URL parser takes as one: a character or an escape. *)
(***************************************************************************)
EXTENDS Naturals, Sequences

CONSTANT Letters   \* the characters that neither encode nor a parser changes

\* A letter is none of the characters that mean something in a URL.
ASSUME LettersAssumption ==
  Letters \cap {".", "/", "?", " ", "%2e", "%2F", "%20", "%3F", "%252e", "%252F"} = {}

Chars == Letters \cup {".", "/", "?", " ", "%2e", "%2F"}

\* "." is unreserved and stays; "/" and "%" do not.
EncodeChar(c) == CASE c = "/"   -> "%2F"
                   [] c = "?"   -> "%3F"
                   [] c = " "   -> "%20"
                   [] c = "%2e" -> "%252e"
                   [] c = "%2F" -> "%252F"
                   [] OTHER     -> c

encode(id) == [i \in DOMAIN id |-> EncodeChar(id[i])]

Blank(id) == \A i \in DOMAIN id : id[i] = " "

DotSegment(seg) == Len(seg) \in {1, 2} /\ \A i \in DOMAIN seg : seg[i] \in {".", "%2e"}

(* Mutant: an id of dots is let through. *)
validate_id_not_blank(id) == ~Blank(id)

validate_id(id) == ~Blank(id) /\ ~DotSegment(id)

-----------------------------------------------------------------------------
\* The reading of a URL: dot segments are removed, "/" separates and "?" ends
\* the path, and each segment is decoded once.
Survives(seg) == ~DotSegment(seg) /\ \A i \in DOMAIN seg : seg[i] \notin {"/", "?"}

DecodeToken(t) == CASE t = "%2F"   -> "/"
                    [] t = "%3F"   -> "?"
                    [] t = "%20"   -> " "
                    [] t = "%2e"   -> "."
                    [] t = "%252e" -> "%2e"
                    [] t = "%252F" -> "%2F"
                    [] OTHER       -> t

Arrives(seg) == [i \in DOMAIN seg |-> DecodeToken(seg[i])]

-----------------------------------------------------------------------------
(* The templates below /v3/workspaces.  A segment that names an id is a     *)
(* parameter; every other segment stands for itself.                        *)
\* The keys of both; where both have one, that of the first.
f ++ g == [k \in DOMAIN f \cup DOMAIN g |-> IF k \in DOMAIN f THEN f[k] ELSE g[k]]

Parameters == {"workspace_id", "peer_id", "session_id", "message_id", "conclusion_id"}

WorkspaceRoutes ==
  [ workspaces               |-> <<>>,
    workspaces_list          |-> <<"list">>,
    workspace                |-> <<"workspace_id">>,
    workspace_search         |-> <<"workspace_id", "search">>,
    workspace_queue_status   |-> <<"workspace_id", "queue", "status">>,
    workspace_schedule_dream |-> <<"workspace_id", "schedule_dream">> ]

PeerRoutes ==
  [ peers               |-> <<"workspace_id", "peers">>,
    peers_list          |-> <<"workspace_id", "peers", "list">>,
    peer_chat           |-> <<"workspace_id", "peers", "peer_id", "chat">>,
    peer_representation |-> <<"workspace_id", "peers", "peer_id", "representation">>,
    peer_card           |-> <<"workspace_id", "peers", "peer_id", "card">>,
    peer_context        |-> <<"workspace_id", "peers", "peer_id", "context">>,
    peer_search         |-> <<"workspace_id", "peers", "peer_id", "search">>,
    peer_sessions_list  |-> <<"workspace_id", "peers", "peer_id", "sessions">> ]

SessionRoutes ==
  [ sessions            |-> <<"workspace_id", "sessions">>,
    sessions_list       |-> <<"workspace_id", "sessions", "list">>,
    session             |-> <<"workspace_id", "sessions", "session_id">>,
    session_clone       |-> <<"workspace_id", "sessions", "session_id", "clone">>,
    session_context     |-> <<"workspace_id", "sessions", "session_id", "context">>,
    session_summaries   |-> <<"workspace_id", "sessions", "session_id", "summaries">>,
    session_search      |-> <<"workspace_id", "sessions", "session_id", "search">>,
    session_peers       |-> <<"workspace_id", "sessions", "session_id", "peers">>,
    session_peer_config |-> <<"workspace_id", "sessions", "session_id", "peers", "peer_id", "config">> ]

MessageRoutes ==
  [ messages        |-> <<"workspace_id", "sessions", "session_id", "messages">>,
    message         |-> <<"workspace_id", "sessions", "session_id", "messages", "message_id">>,
    messages_upload |-> <<"workspace_id", "sessions", "session_id", "messages", "upload">> ]

ConclusionRoutes ==
  [ conclusions       |-> <<"workspace_id", "conclusions">>,
    conclusions_list  |-> <<"workspace_id", "conclusions", "list">>,
    conclusions_query |-> <<"workspace_id", "conclusions", "query">>,
    conclusion        |-> <<"workspace_id", "conclusions", "conclusion_id">> ]

Templates == WorkspaceRoutes ++ PeerRoutes ++ SessionRoutes ++ MessageRoutes ++ ConclusionRoutes

\* The route! macro: every parameter is checked, then all are filled in.
Checked(template, ids) ==
  \A i \in DOMAIN template : template[i] \in Parameters => validate_id(ids[template[i]])
Fill(template, ids) ==
  [i \in DOMAIN template |->
     IF template[i] \in Parameters THEN encode(ids[template[i]]) ELSE <<template[i]>>]
=============================================================================
