---- MODULE MCMessageBroker ----
EXTENDS MessageBroker

\* The text of short begins that of long.
MCBegins == {<<"short", "short">>, <<"long", "long">>, <<"short", "long">>}
====
