-------------------------- MODULE MCStreamSession ----------------------------
EXTENDS StreamSession

\* Two good messages, the second with a newline (octet counts only), one that
\* is not UTF-8, and one beyond MaxSize, parts of which do and do not parse.
MCMessages ==
    { <<"<">>, <<"<", "nl", "x">>, <<"<", "bad">>,
      <<"<", "x", "sp", "<", "x">> }

=============================================================================
