---------------------------- MODULE MC_HtmlParser ---------------------------
(* Instances of HtmlParser: one page with every kind of token, scripts that *)
(* write scripts, and a blank frame written to after it was loaded.         *)
EXTENDS HtmlParser

MCPage   == <<"text", "script", "text", "custom", "module">>
MCChunks == {<<>>, <<"text", "text">>, <<"text", "script", "text">>, <<"custom", "foster">>,
             <<"module", "bad">>, <<"open", "text">>}
=============================================================================
