-------------------------- MODULE MCTerminalInput ---------------------------
EXTENDS ProviderRouting

MCBuiltIns == <<"anthropic", "openrouter", "qwen">>
MCEntries ==
    <<[path |-> <<"d">>, dir |-> TRUE], [path |-> <<"s">>, dir |-> TRUE],
      [path |-> <<"s", "/", "d">>, dir |-> FALSE], [path |-> <<"x">>, dir |-> FALSE]>>
MCFound ==
    {[current |-> c, providers |-> ps] :
        <<c, ps>> \in {<<"openrouter", <<BuiltIn("anthropic"), Other("acme")>>>>,
                       <<"gone", <<BuiltIn("gone"), BuiltIn("qwen")>>>>,
                       <<"acme", <<>>>>}}
MCTyped == {"@", " ", "s", "/", "he", "sessions", "new"}
=============================================================================
