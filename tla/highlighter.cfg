SPECIFICATION Spec
INVARIANTS TypeOK LexesAsWritten TakesWhatGrammarTakes BuildsRules LineBreaksAsWritten ScannerIsAskedAsModelled LinesEndAsModelled
