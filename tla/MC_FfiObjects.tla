---------------------------- MODULE MC_FfiObjects ----------------------------
(* Instances of FfiObjects: URLs around a drive-letter segment, queries with  *)
(* empty and bare entries, and streams cut inside a character.                *)
EXTENDS FfiObjects, TLC

MCUrl(scheme, host, path, query) ==
  [scheme |-> scheme, host |-> host, port |-> -1, path |-> path, query |-> query,
   fragment |-> "", username |-> ""]
MCRef(segs, query) == [abs |-> <<>>, segs |-> segs, query |-> query]

MCLookalikes == {"C:"}
MCHostNames  == {<<"h">>, <<"[", ":", "1", "]">>}
MCPortNumber == "80" :> 80 @@ "65535" :> 65535 @@ "65536" :> 65536
MCUnmappable == "b" :> "%26%2398%3B"
MCAbsolutes  == {MCUrl("http", <<"h">>, <<"x", "C:", "">>, <<<<<<"a">>, <<>>, <<"b", "1">>>>>>),
                 MCUrl("file", <<>>, <<"C:", "x">>, <<>>),
                 MCUrl("abc", <<"h">>, <<"">>, <<>>)}
MCReferences == {MCRef(<<"..">>, <<>>), MCRef(<<"w", "">>, <<>>), MCRef(<<"..", "C:", "">>, <<>>),
                 MCRef(<<>>, <<<<<<"b">>>>>>), MCRef(<<"", "..", "w">>, <<>>)}
MCHostTexts  == {<<"h">>, <<"h", ":", "65535">>, <<"h", ":", "65536">>, <<"h", ":", "/", "80">>,
                 <<"[", ":", "1", "]", ":", "80">>, <<"[", ":", "1">>,
                 <<":", "80">>}
MCPortTexts  == {<<>>, <<"65535">>, <<"65536">>}
MCQueries    == {<<<<>>>>, <<<<<<"a", "1">>, <<"a", "">>>>>>, <<<<<<>>, <<"b">>>>>>}
MCNames      == <<"a", "b">>
MCChunks     == {<<>>, <<"a", "L">>, <<"c", "B">>, <<"B", "a">>}
=============================================================================
