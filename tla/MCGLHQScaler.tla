----------------------------- MODULE MCGLHQScaler -----------------------------
EXTENDS GLHQScaler

\* Three columns give a left border, an inner column and a right border;
\* three lines give a first, an inner and a last line.  Output widths and
\* heights of 1 to 4 times the input give every factor the comment names.
MCWidth  == 3
MCHeight == 3
MCPixels == {0, 1}
==============================================================================
