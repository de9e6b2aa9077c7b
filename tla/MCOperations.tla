---------------------------- MODULE MCOperations ----------------------------
(***************************************************************************)
(* The ids and the values for TLC: both sides of every bound, every class  *)
(* of text, and ids that a path could mistake for something else.          *)
(***************************************************************************)
EXTENDS Operations

CONSTANT NaN   \* the distance that is not a number

MCLetters == {"w", "p", "q", "s", "t", "search", "list", "peers"}
MCWorkspace == <<"w">>
MCPeer == <<"p">>
MCSession == <<"s">>

Ids == {<<"p">>, <<"q">>}
Count == {0, 1, 100, 101}
Distance == {-1, 0, 100, 101, NaN}
Text == {"empty", "blank", "text", "max", "long"}
PathIds1 == {<<"q">>, <<"list">>, <<>>, <<" ">>, <<".">>, <<".", ".">>, <<"%2e">>, <<"%2e", ".">>,
             <<"/">>, <<"q", "/", ".", ".">>, <<"%2F">>, <<"?", "q">>, <<".", "q">>}
Filters == {NoKeys, [level |-> <<"q">>], [observer_id |-> <<"q">>], [observed |-> <<"q">>],
            [session_id |-> <<"t">>]}
Spec1 == [id : Ids, config : {"observed", "default"}]
Specs == {<<>>} \cup {<<a>> : a \in Spec1} \cup {<<a, b>> : a, b \in Spec1}

MCValues ==
  [ search_top_k |-> Count, max_conclusions |-> Count, top_k |-> Count, limit |-> Count,
    size |-> Count, page |-> {0, 1, 2}, tokens |-> {0, 1, 100000, 100001},
    search_max_distance |-> Distance, distance |-> Distance,
    include_most_frequent |-> BOOLEAN, summary |-> BOOLEAN, limit_to_session |-> BOOLEAN,
    reverse |-> BOOLEAN, stream |-> BOOLEAN, reasoning_level |-> {"low", "high"},
    query |-> Text, content |-> Text, search_query |-> {"text"},
    target |-> Ids, of |-> Ids, peer_target |-> Ids, peer_perspective |-> Ids,
    observer_id |-> Ids, sender_id |-> Ids, observer |-> Ids \cup {<<>>}, observed |-> Ids,
    id |-> Ids \cup {<<>>, <<" ">>}, session_id |-> {<<"s">>, <<"t">>},
    workspace_id |-> PathIds1 \cup {MCWorkspace}, peer_id |-> PathIds1,
    message_id |-> PathIds1, conclusion_id |-> PathIds1,
    filters |-> Filters, peers |-> Specs, ids |-> {<<>>, <<"p">>, <<"p", "q">>},
    file |-> {"bytes", "path", "stream"} \cup Unusable,
    metadata |-> {"some"}, configuration |-> {"some"}, created_at |-> {"some"},
    peer_card |-> {"some"} ]
=============================================================================
