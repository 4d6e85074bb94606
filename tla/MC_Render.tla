------------------------------ MODULE MC_Render -----------------------------
(* Instances of Render: documents of up to three blocks of every kind, with *)
(* lists, quotes, markers, several faces and styles in a line, texts that   *)
(* wrap; viewports smaller and larger than them; clips in, across and past  *)
(* the strip; three device pixel ratios.                                    *)
EXTENDS Render

MCSpan(flags, text) == [flags |-> flags, text |-> text]
MCBlock(kind, spans) ==
  [kind |-> kind, level |-> 1, tight |-> FALSE, list |-> 0, quote |-> 0,
   marker |-> <<>>, spans |-> spans]

MCPara  == MCBlock("para", <<MCSpan({}, <<"a", "_", "b">>), MCSpan({"bold"}, <<"a">>),
                             MCSpan({"bold", "underline"}, <<"b">>)>>)
MCHead  == MCBlock("heading", <<MCSpan({}, <<"a">>)>>)
MCHead3 == [MCHead EXCEPT !.level = 3, !.spans[1].text = <<"b", "_", "a">>]
MCPre   == MCBlock("pre", <<MCSpan({}, <<"a", "b", "a">>)>>)
MCRule  == MCBlock("rule", <<>>)
MCItem  == [MCBlock("para", <<MCSpan({"mono"}, <<"b">>)>>) EXCEPT
              !.list = 1, !.quote = 1, !.marker = <<"b">>]
MCBadMk == [MCItem EXCEPT !.marker = BadText, !.list = 0, !.quote = 0]
MCBad   == MCBlock("para", <<MCSpan({}, BadText)>>)

MCDocs  == {<<>>, <<MCPara>>, <<MCHead, MCPre>>, <<MCItem, MCRule, MCItem>>,
            <<MCPre, MCHead3>>, <<MCRule, MCBadMk>>, <<MCPara, MCBad>>}

MCNoClip == [x |-> 0, y |-> 0, w |-> 0, h |-> 0]
MCClips  == {MCNoClip, [x |-> 3, y |-> 5, w |-> 7, h |-> 9],
             [x |-> 1, y |-> 41, w |-> 30, h |-> 20],
             [x |-> -2, y |-> -3, w |-> 10, h |-> 4],
             [x |-> 5, y |-> 500, w |-> 60, h |-> 0]}
MCShots  == [width : {60, 0}, height : {0}, s : {2}, clip : {MCNoClip}, measure : BOOLEAN]
            \cup [width : {60}, height : {0, 30}, s : {1, 2, 3}, clip : MCClips,
                  measure : {FALSE}]
MCPapers == [width : {0, 40, 90}, pageH : {15, 50}, pick : {{}, {2}}]
=============================================================================
