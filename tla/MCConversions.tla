--------------------------- MODULE MCConversions ---------------------------
(* Coordinates of two bytes, with the bytes at which encodings change; infos *)
(* made by createConnectionInfo and infos any other program may have shared. *)
EXTENDS Conversions

MCHeader == <<48, 89>>

MCCapabilities == {<< >>, <<"text">>, <<"other", "text">>, <<"notAnArray">>}

MCCreated ==
    {CreateConnectionInfo("text", d, c) : d \in {"text", "empty", "null", "other"},
                                          c \in MCCapabilities}

MCForeign ==
    [version : {0, 1}, nodeId : {"text", "empty", "other"}, displayName : {"text", "other"},
     capabilities : MCCapabilities, createdAt : {"date", "text", "other"}]

MCShared == MCCreated \cup MCForeign

MCInfos == MCShared \cup {NormalizeConnectionInfo(i) : i \in MCShared}

\* One to three bytes, some of which give the sextets 62 and 63.
Code(v) == CASE v = "text" -> 0 [] v = "empty" -> 1 [] v = "date" -> 2 [] v = "other" -> 3
             [] v = "null" -> 4

MCJson ==
    [i \in MCInfos |->
        <<25 * Code(i.nodeId) + 5 * Code(i.displayName) + Code(i.createdAt) + 128 * i.version>>
        \o (CASE i.capabilities = << >>              -> << >>
              [] i.capabilities = <<"text">>         -> <<255>>
              [] i.capabilities = <<"notAnArray">>   -> <<254>>
              [] OTHER                               -> <<251, 255>>)]
=============================================================================
